---- MODULE Spec2Model ----
(***************************************************************************)
(* Model of the MCP session client of rss-mcp-client                       *)
(* (src/client/mcp_client.py, class MCPClientWrapper): the retry           *)
(* supervisor _execute_with_retry, the scoped connection of                *)
(* _safe_sse_operation with its task-cancelling failure path, and the two  *)
(* operations list_tools and invoke_tool that run through them.            *)
(*                                                                         *)
(* One client runs on one asyncio event loop.  The loop also holds other   *)
(* tasks (other user turns, the server's own tasks); they matter because   *)
(* the failure path of _safe_sse_operation takes asyncio.all_tasks().      *)
(*                                                                         *)
(* asyncio.wait_for exists in two forms.  Before Python 3.12 it wraps the  *)
(* awaited coroutine in a task of its own; from 3.12 on it awaits it in    *)
(* the calling task under asyncio.timeout().  The code does not pin the    *)
(* interpreter, so the form is chosen in Init (spawnsTask).                *)
(***************************************************************************)
EXTENDS Integers, Sequences, FiniteSets

\* ------------------------------------------------------------------------
\* Bounds of the model
\* ------------------------------------------------------------------------
MaxRetries == 3
MaxCalls == 2
NumOthers == 1

\* Values the remote side can answer with (a tool catalog, a tool result).
Values == {"v1", "v2"}

\* Exceptions an attempt can fail with, by class.  ConnectError stands for
\* every Exception that is neither ValueError nor TypeError, ValueError for
\* the two classes the supervisor does not retry.
FailureKinds == {"ConnectError", "ValueError"}

Operations == {"list_tools", "invoke_tool"}

VARIABLES
    max_retries,     \* self.max_retries
    spawnsTask,      \* TRUE: wait_for runs the operation in a task of its own
    pc,              \* where the caller of _execute_with_retry stands
    opname,          \* operation_name of the call in progress
    calls,           \* calls of list_tools / invoke_tool made so far
    attempt,         \* loop variable of _execute_with_retry
    attempts,        \* attempts started in the call in progress
    totalAttempts,   \* attempts started over all calls
    last_exception,  \* local of _execute_with_retry
    wait_time,       \* argument of the asyncio.sleep in progress, 0 if none
    waits,           \* backoff sleeps completed in the call in progress
    fails,           \* what each failed attempt of the call raised to the supervisor
    onlyRetryable,   \* every attempt of the call so far failed with a ConnectError
    opPc,            \* where _safe_sse_operation stands
    session,         \* local of _safe_sse_operation: a ClientSession was built
    initialized,     \* initialize() has returned in the session in progress
    requests,        \* list/call requests sent in the session in progress
    pendingExc,      \* exception caught by the except clause of _safe_sse_operation
    outcome,         \* what wait_for hands to the supervisor
    conns,           \* every transport connection requested so far
    result,          \* value returned by _execute_with_retry
    surfaced,        \* exception class raised by _execute_with_retry
    wrapped,         \* exception named in the message of the MCPConnectionError
    cancelReq,       \* a cancel() on the supervisor's task is still to be delivered
    timerFired,      \* the timeout of a stuck attempt has fired
    others,          \* the other tasks of the event loop
    \* -- the mappings of list_tools and invoke_tool, applied to an answer
    fn,              \* the operation whose _operation(session) is applied
    fnPc,            \* "called": the answer has arrived; "returned"
    tools_result,    \* tools_result.tools: the catalog the remote side sent
    toolDefs,        \* the list of ToolDef that _operation of list_tools returns
    call_result,     \* what session.call_tool() answered
    invocation,      \* the ToolInvocationResult of invoke_tool
    \* -- the client object
    impl,            \* the module whose MCPClientWrapper is used
    ctorArgs,        \* the arguments of the constructor call
    clients,         \* the client objects that exist, attribute by attribute
    objPc,           \* "new": not constructed yet; "ready"; "rejected"
    ret,             \* what the last call on the object returned or raised
    \* -- the bridges
    bridge,          \* every LLMBridge: self.tools, where its process_query stands
    mcp_client,      \* the client of every bridge: what it keeps in self.tools
    \* -- one user turn
    tpc,             \* where the turn stands: the function awaiting process_query
    handler,         \* the function that handles the tool result of the first call
    results,         \* what the calls of process_query of the turn ended with
    output_queue,    \* the items put on the queue of the user interface
    reply,           \* the final reply of the turn
    turnError,       \* the exception that ended the turn
    prompt,          \* the content of the re-prompt message given to process_query
    \* -- a function of anthropic_bridge.py applied to an argument
    callee,          \* the function
    callPc,          \* "called" or "returned"
    argument,        \* what it is called with
    retval,          \* what it returned
    \* -- two calls of process_query in progress on one bridge
    self_tools,      \* self.tools of the bridge
    query            \* every call: where it stands and what it has so far

retryVars == <<max_retries, spawnsTask, pc, opname, calls, attempt, attempts,
               totalAttempts, last_exception, wait_time, waits, fails,
               onlyRetryable, opPc, session, initialized, requests,
               pendingExc, outcome, conns, result, surfaced, wrapped,
               cancelReq, timerFired, others>>

fnVars == <<fn, fnPc, tools_result, toolDefs, call_result, invocation>>

objVars == <<impl, ctorArgs, clients, objPc, ret>>

bridgeVars == <<bridge, mcp_client>>

turnVars == <<tpc, handler, results, output_queue, reply, turnError, prompt>>

callVars == <<callee, callPc, argument, retval>>

raceVars == <<self_tools, query>>

vars == <<retryVars, fnVars, objVars, bridgeVars, turnVars, callVars, raceVars>>

\* ------------------------------------------------------------------------
\* Helpers
\* ------------------------------------------------------------------------
RECURSIVE Pow2(_)
Pow2(n) == IF n = 0 THEN 1 ELSE 2 * Pow2(n - 1)

RECURSIVE SumSeq(_)
SumSeq(s) == IF s = <<>> THEN 0 ELSE s[1] + SumSeq(Tail(s))

Last(s) == s[Len(s)]

\* The suspension points of an attempt: connecting, handshake, list/call.
Suspended == {"opening", "handshake", "request"}

\* The call of _execute_with_retry is over.
Ended == {"returned", "raised", "cancelled"}

\* No call of list_tools / invoke_tool has been made.
RetryIdle ==
    /\ pc = "idle"
    /\ opname = "none"
    /\ calls = 0
    /\ attempt = 0
    /\ attempts = 0
    /\ totalAttempts = 0
    /\ last_exception = "None"
    /\ wait_time = 0
    /\ waits = <<>>
    /\ fails = <<>>
    /\ onlyRetryable = TRUE
    /\ opPc = "none"
    /\ session = FALSE
    /\ initialized = FALSE
    /\ requests = 0
    /\ pendingExc = "None"
    /\ outcome = "None"
    /\ conns = <<>>
    /\ result = "None"
    /\ surfaced = "None"
    /\ wrapped = "None"
    /\ cancelReq = FALSE
    /\ timerFired = FALSE
    /\ others = [i \in 1..NumOthers |-> "pending"]

\* max_retries: int = 3
DefaultMaxRetries == 3

\* A client built with the defaults on which no call is made.
RetryFrozen ==
    /\ max_retries = DefaultMaxRetries
    /\ spawnsTask = TRUE
    /\ RetryIdle

\* No answer is being mapped.
FnIdle ==
    /\ fn = "none"
    /\ fnPc = "none"
    /\ tools_result = <<>>
    /\ toolDefs = <<>>
    /\ call_result = [content |-> <<>>, isError |-> FALSE]
    /\ invocation = [content |-> <<>>, error_code |-> 0]

\* The object of the client is not looked at.
ObjIdle ==
    /\ impl = "client/mcp_client.py"
    /\ ctorArgs = [endpoint |-> <<>>, timeout |-> 0, max_retries |-> 0]
    /\ clients = <<>>
    /\ objPc = "none"
    /\ ret = [op |-> "none", raised |-> FALSE, value |-> "None"]

\* No bridge is looked at.
BridgeIdle ==
    /\ bridge = <<>>
    /\ mcp_client = <<>>

\* No turn is looked at.
TurnIdle ==
    /\ tpc = "none"
    /\ handler = "none"
    /\ results = <<>>
    /\ output_queue = <<>>
    /\ reply = <<"None", 0>>
    /\ turnError = "None"
    /\ prompt = <<>>

\* No function is applied.
CallIdle ==
    /\ callee = "none"
    /\ callPc = "none"
    /\ argument = <<>>
    /\ retval = <<>>

\* No call is in progress on the shared bridge.
RaceIdle ==
    /\ self_tools = <<>>
    /\ query = <<>>

\* A client constructed with a SessionConfig, on either form of wait_for.
Init ==
    /\ max_retries \in 1..MaxRetries
    /\ spawnsTask \in BOOLEAN
    /\ RetryIdle
    /\ FnIdle
    /\ ObjIdle
    /\ BridgeIdle
    /\ TurnIdle
    /\ CallIdle
    /\ RaceIdle

\* ------------------------------------------------------------------------
\* The scoped connection: _safe_sse_operation
\* ------------------------------------------------------------------------

\* The tasks an established connection runs until its scopes are left: the
\* reader and the writer of the stream pair, the receive loop of the session.
SessionTasks == {"sse_reader", "post_writer", "receive_loop"}

\* A connection kept from one attempt to the next instead of a new one.
OpenConnection_Reuse(cs, user) ==
    IF cs = <<>>
    THEN Append(cs, [users |-> {user}, state |-> "requested", tasks |-> {}])
    ELSE [cs EXCEPT ![Len(cs)].users = @ \cup {user},
                    ![Len(cs)].state = "requested"]

\* sse_client(self.endpoint): every call asks for a connection of its own.
\* user is the <<call, attempt>> the connection is made for.
OpenConnection(cs, user) ==
    Append(cs, [users |-> {user}, state |-> "requested", tasks |-> {}])

\* Scopes left without waiting for the tasks they started.
ExitScopes_LeavesTasks(c) == [c EXCEPT !.state = "closed"]

\* Scopes left without closing the stream pair.
ExitScopes_LeavesOpen(c) == [c EXCEPT !.tasks = {}]

\* Leaving "async with session" and "async with streams": __aexit__ of both
\* scopes runs on every way out, closes the stream pair and ends the tasks
\* the two scopes started.
ExitScopes(c) ==
    [c EXCEPT !.state = "closed", !.tasks = {}]

\* One iteration of the for loop up to the await of wait_for, and the
\* operation up to the await that enters the streams scope.
StartAttempt(c, a, before) ==
    /\ attempt' = a
    /\ attempts' = before + 1
    /\ totalAttempts' = totalAttempts + 1
    /\ pc' = "attempt"
    /\ opPc' = "opening"
    /\ session' = FALSE
    /\ initialized' = FALSE
    /\ requests' = 0
    /\ pendingExc' = "None"
    /\ outcome' = "None"
    /\ timerFired' = FALSE
    /\ conns' = OpenConnection(conns, <<c, a>>)

\* The connection is established: the streams scope is entered, the
\* ClientSession is built and its scope entered; initialize() is awaited.
OpenOk ==
    /\ pc = "attempt" /\ opPc = "opening"
    /\ conns' = [conns EXCEPT ![Len(conns)].state = "open",
                              ![Len(conns)].tasks = SessionTasks]
    /\ session' = TRUE
    /\ opPc' = "handshake"
    /\ UNCHANGED <<max_retries, spawnsTask, pc, opname, calls, attempt, attempts,
                   totalAttempts, last_exception, wait_time, waits, fails,
                   onlyRetryable, initialized, requests, pendingExc, outcome,
                   result, surfaced, wrapped, cancelReq, timerFired, others,
                   fnVars, objVars, bridgeVars, turnVars, callVars, raceVars>>

\* Entering the streams scope raises: no session was built.
OpenFail(k) ==
    /\ pc = "attempt" /\ opPc = "opening"
    /\ conns' = [conns EXCEPT ![Len(conns)] = ExitScopes(@)]
    /\ pendingExc' = k
    /\ onlyRetryable' = (onlyRetryable /\ k = "ConnectError")
    /\ opPc' = "except"
    /\ UNCHANGED <<max_retries, spawnsTask, pc, opname, calls, attempt, attempts,
                   totalAttempts, last_exception, wait_time, waits, fails,
                   session, initialized, requests, outcome, result, surfaced,
                   wrapped, cancelReq, timerFired, others, fnVars, objVars,
                   bridgeVars, turnVars, callVars, raceVars>>

\* An operation that sends its request again on the same session.
SendRequest_Twice(n) == n + 2

\* operation_func(session_context): _list_tools_operation awaits
\* session.list_tools() and _invoke_tool_operation session.call_tool(), once.
SendRequest(n) == n + 1

\* session_context.initialize() returns; operation_func(session) is called
\* and awaits the answer to its request.
HandshakeOk ==
    /\ pc = "attempt" /\ opPc = "handshake"
    /\ initialized' = TRUE
    /\ requests' = SendRequest(requests)
    /\ opPc' = "request"
    /\ UNCHANGED <<max_retries, spawnsTask, pc, opname, calls, attempt, attempts,
                   totalAttempts, last_exception, wait_time, waits, fails,
                   onlyRetryable, session, pendingExc, outcome, conns, result,
                   surfaced, wrapped, cancelReq, timerFired, others, fnVars,
                   objVars, bridgeVars, turnVars, callVars, raceVars>>

\* An exception inside the session scope: both scopes are left, then the
\* except clause of _safe_sse_operation catches it.
FailInSession(k, at) ==
    /\ pc = "attempt" /\ opPc = at
    /\ conns' = [conns EXCEPT ![Len(conns)] = ExitScopes(@)]
    /\ pendingExc' = k
    /\ onlyRetryable' = (onlyRetryable /\ k = "ConnectError")
    /\ opPc' = "except"
    /\ UNCHANGED <<max_retries, spawnsTask, pc, opname, calls, attempt, attempts,
                   totalAttempts, last_exception, wait_time, waits, fails,
                   session, initialized, requests, outcome, result, surfaced,
                   wrapped, cancelReq, timerFired, others, fnVars, objVars,
                   bridgeVars, turnVars, callVars, raceVars>>

HandshakeFail(k) == FailInSession(k, "handshake")

RequestFail(k) == FailInSession(k, "request")

\* session.list_tools() / session.call_tool() answers with v: the operation
\* returns it through both scopes.
RequestOk(v) ==
    /\ pc = "attempt" /\ opPc = "request"
    /\ conns' = [conns EXCEPT ![Len(conns)] = ExitScopes(@)]
    /\ outcome' = v
    /\ opPc' = "done"
    /\ UNCHANGED <<max_retries, spawnsTask, pc, opname, calls, attempt, attempts,
                   totalAttempts, last_exception, wait_time, waits, fails,
                   onlyRetryable, session, initialized, requests, pendingExc,
                   result, surfaced, wrapped, cancelReq, timerFired, others,
                   fnVars, objVars, bridgeVars, turnVars, callVars, raceVars>>

\* The timeout of wait_for fires while the operation is suspended: a
\* CancelledError is thrown into it.  CancelledError is no Exception, so the
\* except clause of _safe_sse_operation is passed by; the scopes are left
\* and wait_for raises TimeoutError.
Timeout ==
    /\ pc = "attempt" /\ opPc \in Suspended
    /\ conns' = [conns EXCEPT ![Len(conns)] = ExitScopes(@)]
    /\ onlyRetryable' = FALSE
    /\ outcome' = "TimeoutError"
    /\ opPc' = "failed"
    /\ UNCHANGED <<max_retries, spawnsTask, pc, opname, calls, attempt, attempts,
                   totalAttempts, last_exception, wait_time, waits, fails,
                   session, initialized, requests, pendingExc, result, surfaced,
                   wrapped, cancelReq, timerFired, others, fnVars, objVars,
                   bridgeVars, turnVars, callVars, raceVars>>

\* task.cancel() for every task of asyncio.all_tasks() that is not done.
CancelAllTasks(ts) ==
    [i \in DOMAIN ts |-> IF ts[i] = "pending" THEN "cancelled" ELSE ts[i]]

\* The except clause of _safe_sse_operation.  Without a session it re-raises.
\* With one it cancels every task of the loop that is not done - the tasks of
\* other work, the task it runs in and, where wait_for made a task for the
\* operation, the supervisor's task - and awaits gather() over them, the
\* task it runs in among them.  What follows depends on the interpreter:
\*  - wait_for in a task of its own: the supervisor is woken by the cancel;
\*    the attempt reaches it as a RecursionError (raised by the cancel chain
\*    through the gather) or as the caught exception, and a second cancel of
\*    the supervisor's task may be left to be delivered at its next await;
\*  - wait_for in the caller's task: the task awaits a gather that awaits
\*    the task, and cancel() on it fails, so the attempt never ends.
ExceptBlock ==
    /\ pc = "attempt" /\ opPc = "except"
    /\ IF ~session
       THEN /\ outcome' = pendingExc
            /\ opPc' = "failed"
            /\ UNCHANGED <<cancelReq, others>>
       ELSE /\ others' = CancelAllTasks(others)
            /\ IF spawnsTask
               THEN \E absorbed \in BOOLEAN :
                    \E seen \in {"RecursionError", pendingExc} :
                        /\ cancelReq' = ~absorbed
                        /\ outcome' = seen
                        /\ opPc' = "failed"
               ELSE /\ cancelReq' = TRUE
                    /\ outcome' = "None"
                    /\ opPc' = "stuck"
    /\ UNCHANGED <<max_retries, spawnsTask, pc, opname, calls, attempt, attempts,
                   totalAttempts, last_exception, wait_time, waits, fails,
                   onlyRetryable, session, initialized, requests, pendingExc,
                   conns, result, surfaced, wrapped, timerFired, fnVars, objVars,
                   bridgeVars, turnVars, callVars, raceVars>>

\* The timeout of an attempt stuck in the gather fires: its cancel() runs
\* into the same cancel chain and raises in the timer callback; the attempt
\* goes on waiting.
TimerFiresStuck ==
    /\ pc = "attempt" /\ opPc = "stuck" /\ ~timerFired
    /\ timerFired' = TRUE
    /\ UNCHANGED <<max_retries, spawnsTask, pc, opname, calls, attempt, attempts,
                   totalAttempts, last_exception, wait_time, waits, fails,
                   onlyRetryable, opPc, session, initialized, requests,
                   pendingExc, outcome, conns, result, surfaced, wrapped,
                   cancelReq, others, fnVars, objVars, bridgeVars, turnVars,
                   callVars, raceVars>>

\* ------------------------------------------------------------------------
\* The retry supervisor: _execute_with_retry
\* ------------------------------------------------------------------------

\* A break that tests for a class no attempt raises.
IsNonRetryable_WrongClass(e) == e \in {"KeyError"}

\* isinstance(e, (ValueError, TypeError)): the errors that end the loop.
IsNonRetryable(e) == e \in {"ValueError", "TypeError"}

\* wait_time = 2 ** attempt
WaitTime(a) == Pow2(a)

\* A raise that never recognises the timeout.
SurfacedError_AlwaysConnection(le) == "MCPConnectionError"

\* The raise after the loop: the MCPTimeoutError kept in last_exception, or
\* an MCPConnectionError naming last_exception.
SurfacedError(le) ==
    IF le = "MCPTimeoutError" THEN "MCPTimeoutError" ELSE "MCPConnectionError"

\* A return that loses the value of the attempt.
ReturnValue_Dropped(o) == "None"

\* return result
ReturnValue(o) == o

\* The rest of a loop iteration after an except clause has set
\* last_exception to le: sleep before the next attempt if one remains and
\* the clause did not break, else leave the loop and raise.
AfterFailure(le, brk) ==
    IF ~brk /\ attempt < max_retries - 1
    THEN /\ pc' = "backoff"
         /\ wait_time' = WaitTime(attempt)
         /\ UNCHANGED <<surfaced, wrapped>>
    ELSE /\ pc' = "raised"
         /\ wait_time' = 0
         /\ surfaced' = SurfacedError(le)
         /\ wrapped' = IF le = "MCPTimeoutError" THEN "None" ELSE le

\* list_tools() or invoke_tool(): _execute_with_retry starts its loop.  A
\* caller with a cancel to be delivered does not get this far.
Call(op) ==
    /\ pc \in {"idle", "returned", "raised"}
    /\ ~cancelReq
    /\ calls < MaxCalls
    /\ calls' = calls + 1
    /\ opname' = op
    /\ last_exception' = "None"
    /\ wait_time' = 0
    /\ waits' = <<>>
    /\ fails' = <<>>
    /\ onlyRetryable' = TRUE
    /\ result' = "None"
    /\ surfaced' = "None"
    /\ wrapped' = "None"
    /\ StartAttempt(calls + 1, 0, 0)
    /\ UNCHANGED <<max_retries, spawnsTask, cancelReq, others, fnVars, objVars,
                   bridgeVars, turnVars, callVars, raceVars>>

\* wait_for returned: return result.
ReturnResult ==
    /\ pc = "attempt" /\ opPc = "done"
    /\ result' = ReturnValue(outcome)
    /\ pc' = "returned"
    /\ opPc' = "none"
    /\ UNCHANGED <<max_retries, spawnsTask, opname, calls, attempt, attempts,
                   totalAttempts, last_exception, wait_time, waits, fails,
                   onlyRetryable, session, initialized, requests, pendingExc,
                   outcome, conns, surfaced, wrapped, cancelReq, timerFired,
                   others, fnVars, objVars, bridgeVars, turnVars, callVars,
                   raceVars>>

\* except asyncio.TimeoutError
HandleTimeout ==
    /\ pc = "attempt" /\ opPc = "failed" /\ outcome = "TimeoutError"
    /\ last_exception' = "MCPTimeoutError"
    /\ fails' = Append(fails, outcome)
    /\ opPc' = "none"
    /\ AfterFailure("MCPTimeoutError", FALSE)
    /\ UNCHANGED <<max_retries, spawnsTask, opname, calls, attempt, attempts,
                   totalAttempts, waits, onlyRetryable, session, initialized,
                   requests, pendingExc, outcome, conns, result, cancelReq,
                   timerFired, others, fnVars, objVars, bridgeVars, turnVars,
                   callVars, raceVars>>

\* except Exception
HandleException ==
    /\ pc = "attempt" /\ opPc = "failed" /\ outcome # "TimeoutError"
    /\ last_exception' = outcome
    /\ fails' = Append(fails, outcome)
    /\ opPc' = "none"
    /\ AfterFailure(outcome, IsNonRetryable(outcome))
    /\ UNCHANGED <<max_retries, spawnsTask, opname, calls, attempt, attempts,
                   totalAttempts, waits, onlyRetryable, session, initialized,
                   requests, pendingExc, outcome, conns, result, cancelReq,
                   timerFired, others, fnVars, objVars, bridgeVars, turnVars,
                   callVars, raceVars>>

\* asyncio.sleep(wait_time) is over: the next iteration starts.
BackoffDone ==
    /\ pc = "backoff" /\ ~cancelReq
    /\ waits' = Append(waits, wait_time)
    /\ wait_time' = 0
    /\ StartAttempt(calls, attempt + 1, attempts)
    /\ UNCHANGED <<max_retries, spawnsTask, opname, calls, last_exception, fails,
                   onlyRetryable, result, surfaced, wrapped, cancelReq, others,
                   fnVars, objVars, bridgeVars, turnVars, callVars, raceVars>>

\* A cancel left on the supervisor's task is delivered at the sleep:
\* CancelledError leaves _execute_with_retry.
BackoffCancelled ==
    /\ pc = "backoff" /\ cancelReq
    /\ pc' = "cancelled"
    /\ cancelReq' = FALSE
    /\ wait_time' = 0
    /\ UNCHANGED <<max_retries, spawnsTask, opname, calls, attempt, attempts,
                   totalAttempts, last_exception, waits, fails, onlyRetryable,
                   opPc, session, initialized, requests, pendingExc, outcome,
                   conns, result, surfaced, wrapped, timerFired, others, fnVars,
                   objVars, bridgeVars, turnVars, callVars, raceVars>>

\* A cancel left on the task after the last attempt is delivered to the
\* caller of list_tools / invoke_tool at its next await.
CallerCancelled ==
    /\ pc = "raised" /\ cancelReq
    /\ pc' = "cancelled"
    /\ cancelReq' = FALSE
    /\ UNCHANGED <<max_retries, spawnsTask, opname, calls, attempt, attempts,
                   totalAttempts, last_exception, wait_time, waits, fails,
                   onlyRetryable, opPc, session, initialized, requests,
                   pendingExc, outcome, conns, result, surfaced, wrapped,
                   timerFired, others, fnVars, objVars, bridgeVars, turnVars,
                   callVars, raceVars>>

\* Another task of the loop finishes its own work.
OtherFinishes(i) ==
    /\ others[i] = "pending"
    /\ others' = [others EXCEPT ![i] = "done"]
    /\ UNCHANGED <<max_retries, spawnsTask, pc, opname, calls, attempt, attempts,
                   totalAttempts, last_exception, wait_time, waits, fails,
                   onlyRetryable, opPc, session, initialized, requests,
                   pendingExc, outcome, conns, result, surfaced, wrapped,
                   cancelReq, timerFired, fnVars, objVars, bridgeVars, turnVars,
                   callVars, raceVars>>

Next ==
    \/ \E op \in Operations : Call(op)
    \/ OpenOk
    \/ \E k \in FailureKinds : OpenFail(k)
    \/ HandshakeOk
    \/ \E k \in FailureKinds : HandshakeFail(k)
    \/ \E v \in Values : RequestOk(v)
    \/ \E k \in FailureKinds : RequestFail(k)
    \/ Timeout
    \/ ExceptBlock
    \/ TimerFiresStuck
    \/ ReturnResult
    \/ HandleTimeout
    \/ HandleException
    \/ BackoffDone
    \/ BackoffCancelled
    \/ CallerCancelled
    \/ \E i \in 1..NumOthers : OtherFinishes(i)

Spec == Init /\ [][Next]_vars

\* The event loop runs every callback that is ready and every timer that is
\* due; nothing makes the remote side answer.
Fairness ==
    /\ WF_vars(Timeout)
    /\ WF_vars(ExceptBlock)
    /\ WF_vars(TimerFiresStuck)
    /\ WF_vars(ReturnResult)
    /\ WF_vars(HandleTimeout)
    /\ WF_vars(HandleException)
    /\ WF_vars(BackoffDone)
    /\ WF_vars(BackoffCancelled)
    /\ WF_vars(CallerCancelled)

FairSpec == Spec /\ Fairness

\* ------------------------------------------------------------------------
\* The mappings of list_tools and invoke_tool
\*
\* What _operation(session) of each operation makes of the answer of the
\* remote side.  A text is a sequence of tokens; "\n" is the line feed.
\* ------------------------------------------------------------------------

\* The most content fragments a tool answer holds.
MaxFragments == 2

ToolNames == {"rss_mcp_server_get_feed", "rss_mcp_server_get_link"}

ParamNames == {"website", "count"}

\* Values of "type" in a parameter schema; "frobnicate" is no JSON type.
SchemaTypes == {"integer", "frobnicate"}

FragmentTypes == {"text", "image"}

FragmentBodies == {"a", "b"}

\* The URL the application constructs its client with.
AppEndpoint == "https://agents-mcp-hackathon-rss-mcp-server.hf.space/gradio_api/mcp/sse"

\* Lists without repetition of members of S: the key orders of a dict.
Orderings(S) ==
    UNION {{s \in [1..Cardinality(T) -> T] :
                \A i, j \in 1..Cardinality(T) : s[i] = s[j] => i = j} :
           T \in SUBSET S}

\* The schema of one parameter: a dict that may lack any of its keys.
ParamSchemas ==
    {[k \in D |-> IF k = "type" THEN t
                  ELSE IF k = "description" THEN "about" ELSE "d1"] :
        D \in SUBSET {"type", "description", "default"}, t \in SchemaTypes}

\* inputSchema["properties"].items(): pairs <<name, schema>> in dict order.
PropertyLists ==
    {[i \in 1..Len(o) |-> <<o[i], f[o[i]]>>] :
        o \in Orderings(ParamNames), f \in [ParamNames -> ParamSchemas]}

\* tool.inputSchema: a dict that may lack "properties" and "required".
InputSchemas ==
    {[k \in D |-> IF k = "properties" THEN props ELSE req] :
        D \in SUBSET {"properties", "required"},
        props \in PropertyLists, req \in Orderings(ParamNames)}

RemoteTools ==
    {[name |-> n, description |-> "about", inputSchema |-> s] :
        n \in ToolNames, s \in InputSchemas}

\* Tools that take no parameter.
PlainTools ==
    {[name |-> n, description |-> "about", inputSchema |-> [k \in {} |-> <<>>]] :
        n \in ToolNames}

\* The catalogs list_tools is applied to: none, one tool, or one tool before
\* or after a tool without parameters.
Catalogs ==
    {<<>>} \cup {<<t>> : t \in RemoteTools}
           \cup {<<t, u>> : t \in RemoteTools, u \in PlainTools}
           \cup {<<u, t>> : t \in RemoteTools, u \in PlainTools}

Fragments == [type : FragmentTypes, body : FragmentBodies]

\* The answers invoke_tool is applied to.
CallResults ==
    [content : UNION {[1..n -> Fragments] : n \in 0..MaxFragments},
     isError : BOOLEAN]

\* dict.get(key, default)
Get(d, key, default) == IF key \in DOMAIN d THEN d[key] ELSE default

\* x in list
In(x, list) == \E i \in 1..Len(list) : list[i] = x

\* A mapping that knows the JSON types only.
ParameterType_KnownOnly(param_schema) ==
    IF Get(param_schema, "type", "string") \in {"string", "integer"}
    THEN Get(param_schema, "type", "string")
    ELSE "string"

\* parameter_type=param_schema.get('type', 'string')
ParameterType(param_schema) == Get(param_schema, "type", "string")

\* ToolParameter(...) for one item of inputSchema['properties'].items()
MapParameter(item, required_params) ==
    [name |-> item[1],
     parameter_type |-> ParameterType(item[2]),
     description |-> Get(item[2], "description", ""),
     required |-> In(item[1], required_params),
     default |-> Get(item[2], "default", "None")]

\* The body of "for tool in tools_result.tools": one ToolDef.
MapTool(tool, endpoint) ==
    LET required_params == Get(tool.inputSchema, "required", <<>>)
        items == Get(tool.inputSchema, "properties", <<>>)
    IN  [name |-> tool.name,
         description |-> tool.description,
         parameters |-> [j \in 1..Len(items) |->
                            MapParameter(items[j], required_params)],
         metadata |-> [endpoint |-> endpoint],
         identifier |-> tool.name]

\* tools: one ToolDef appended per tool of the answer.
MapTools(remote, endpoint) ==
    [i \in 1..Len(remote) |-> MapTool(remote[i], endpoint)]

\* result.model_dump_json(): one JSON object, line feeds inside it escaped.
model_dump_json(c) == <<"{", c.type, c.body, "}">>

\* A join that puts nothing between the parts.
RECURSIVE Join_NoSeparator(_, _)
Join_NoSeparator(sep, parts) ==
    IF parts = <<>> THEN <<>>
    ELSE parts[1] \o Join_NoSeparator(sep, Tail(parts))

\* sep.join(parts)
RECURSIVE Join(_, _)
Join(sep, parts) ==
    IF parts = <<>> THEN <<>>
    ELSE IF Len(parts) = 1 THEN parts[1]
    ELSE parts[1] \o <<sep>> \o Join(sep, Tail(parts))

\* 1 if result.isError else 0
ErrorCode(isError) == IF isError THEN 1 ELSE 0

\* ToolInvocationResult(content=..., error_code=...)
ToolInvocationResult(answer) ==
    [content |-> Join("\n", [i \in 1..Len(answer.content) |->
                                model_dump_json(answer.content[i])]),
     error_code |-> ErrorCode(answer.isError)]

\* _operation(session) of list_tools, from the answer of session.list_tools().
ListToolsOperation ==
    /\ fn = "list_tools" /\ fnPc = "called"
    /\ toolDefs' = MapTools(tools_result, AppEndpoint)
    /\ fnPc' = "returned"
    /\ UNCHANGED <<raceVars, callVars, retryVars, objVars, bridgeVars, turnVars, fn, tools_result, call_result, invocation>>

\* _operation(session) of invoke_tool, from the answer of session.call_tool().
InvokeToolOperation ==
    /\ fn = "invoke_tool" /\ fnPc = "called"
    /\ invocation' = ToolInvocationResult(call_result)
    /\ fnPc' = "returned"
    /\ UNCHANGED <<raceVars, callVars, retryVars, objVars, bridgeVars, turnVars, fn, tools_result, toolDefs, call_result>>

\* An answer of the remote side has arrived in a session of a client built
\* with the defaults.
FnInit ==
    /\ RetryFrozen
    /\ ObjIdle
    /\ BridgeIdle
    /\ TurnIdle
    /\ CallIdle
    /\ RaceIdle
    /\ fnPc = "called"
    /\ toolDefs = <<>>
    /\ invocation = [content |-> <<>>, error_code |-> 0]
    /\ \/ /\ fn = "list_tools"
          /\ tools_result \in Catalogs
          /\ call_result = [content |-> <<>>, isError |-> FALSE]
       \/ /\ fn = "invoke_tool"
          /\ tools_result = <<>>
          /\ call_result \in CallResults

FnNext ==
    \/ ListToolsOperation
    \/ InvokeToolOperation

FnSpec == FnInit /\ [][FnNext]_vars

\* ------------------------------------------------------------------------
\* The client object: its construction and what its operations leave on it
\*
\* MCPClientWrapper exists twice, in client/mcp_client.py and in
\* rss_client.py.  An operation is taken by its outcome here: what a call of
\* list_tools / invoke_tool can end with is the matter of the supervisor
\* above.  An endpoint is a URL as a sequence of tokens.
\* ------------------------------------------------------------------------

Modules == {"client/mcp_client.py", "rss_client.py"}

Endpoints ==
    {<<"https", ":", "//host/sse">>, <<"HTTP", ":", "//host/sse">>,
     <<"ftp", ":", "//host/sse">>, <<"host/sse">>}

Timeouts == {5, 30}

\* What a call of list_tools / invoke_tool raises to its caller.
Raised == {"MCPConnectionError", "MCPTimeoutError", "CancelledError"}

\* str.lower() of a scheme
Lower(s) ==
    CASE s = "HTTP" -> "http"
      [] s = "HTTPS" -> "https"
      [] s = "FTP" -> "ftp"
      [] OTHER -> s

\* urlparse(endpoint).scheme: what stands before the first ":", in lower
\* case; empty without one.
urlparse_scheme(endpoint) ==
    IF Len(endpoint) >= 2 /\ endpoint[2] = ":" THEN Lower(endpoint[1]) ELSE ""

\* __init__ raises ValueError: rss_client.py tests the scheme of the
\* endpoint, client/mcp_client.py tests nothing; neither tests max_retries.
Rejects(module, a) ==
    /\ module = "rss_client.py"
    /\ urlparse_scheme(a.endpoint) \notin {"http", "https"}

\* The attributes __init__ sets; neither class sets tools.
NewClient(a) ==
    [endpoint |-> a.endpoint, timeout |-> a.timeout,
     max_retries |-> a.max_retries, tools |-> "unset"]

\* self.tools = tools: only _operation of list_tools in client/mcp_client.py
\* has the line.
StoreTools(module, c, catalog) ==
    IF module = "client/mcp_client.py" THEN [c EXCEPT !.tools = catalog] ELSE c

\* What a call through _execute_with_retry can end with: with max_retries
\* < 1 the loop body never runs and MCPConnectionError is raised.
Outcomes(c) ==
    IF c.max_retries >= 1 THEN Values \cup Raised ELSE {"MCPConnectionError"}

\* MCPClientWrapper(endpoint, timeout, max_retries)
Construct ==
    /\ objPc = "new"
    /\ IF Rejects(impl, ctorArgs)
       THEN /\ objPc' = "rejected"
            /\ clients' = clients
            /\ ret' = [op |-> "__init__", raised |-> TRUE, value |-> "ValueError"]
       ELSE /\ objPc' = "ready"
            /\ clients' = Append(clients, NewClient(ctorArgs))
            /\ ret' = [op |-> "__init__", raised |-> FALSE, value |-> "None"]
    /\ UNCHANGED <<raceVars, callVars, retryVars, fnVars, bridgeVars, turnVars, impl, ctorArgs>>

\* await client.list_tools()
ListTools(o) ==
    /\ objPc = "ready"
    /\ o \in Outcomes(clients[1])
    /\ clients' = IF o \in Values
                  THEN [clients EXCEPT ![1] = StoreTools(impl, @, o)]
                  ELSE clients
    /\ ret' = [op |-> "list_tools", raised |-> (o \in Raised), value |-> o]
    /\ UNCHANGED <<raceVars, callVars, retryVars, fnVars, bridgeVars, turnVars, impl, ctorArgs, objPc>>

\* await client.invoke_tool(tool_name, kwargs)
InvokeTool(o) ==
    /\ objPc = "ready"
    /\ o \in Outcomes(clients[1])
    /\ ret' = [op |-> "invoke_tool", raised |-> (o \in Raised), value |-> o]
    /\ UNCHANGED <<raceVars, callVars, retryVars, fnVars, bridgeVars, turnVars, impl, ctorArgs, clients, objPc>>

\* await client.check_connection(): list_tools() under "except Exception";
\* CancelledError is no Exception.
CheckConnection(o) ==
    /\ objPc = "ready"
    /\ o \in Outcomes(clients[1])
    /\ clients' = IF o \in Values
                  THEN [clients EXCEPT ![1] = StoreTools(impl, @, o)]
                  ELSE clients
    /\ ret' = IF o \in Values
              THEN [op |-> "check_connection", raised |-> FALSE, value |-> "True"]
              ELSE IF o = "CancelledError"
              THEN [op |-> "check_connection", raised |-> TRUE, value |-> o]
              ELSE [op |-> "check_connection", raised |-> FALSE, value |-> "False"]
    /\ UNCHANGED <<raceVars, callVars, retryVars, fnVars, bridgeVars, turnVars, impl, ctorArgs, objPc>>

\* client.get_endpoint_info()
GetEndpointInfo ==
    /\ objPc = "ready"
    /\ ret' = [op |-> "get_endpoint_info", raised |-> FALSE,
               value |-> [endpoint |-> clients[1].endpoint,
                          scheme |-> urlparse_scheme(clients[1].endpoint),
                          timeout |-> clients[1].timeout,
                          max_retries |-> clients[1].max_retries]]
    /\ UNCHANGED <<raceVars, callVars, retryVars, fnVars, bridgeVars, turnVars, impl, ctorArgs, clients, objPc>>

\* A constructor call is about to be made, with any arguments.
ObjInit ==
    /\ RetryFrozen
    /\ FnIdle
    /\ BridgeIdle
    /\ TurnIdle
    /\ CallIdle
    /\ RaceIdle
    /\ impl \in Modules
    /\ ctorArgs \in [endpoint : Endpoints, timeout : Timeouts,
                     max_retries : 0..MaxRetries]
    /\ clients = <<>>
    /\ objPc = "new"
    /\ ret = [op |-> "none", raised |-> FALSE, value |-> "None"]

ObjNext ==
    \/ Construct
    \/ \E o \in Values \cup Raised : ListTools(o)
    \/ \E o \in Values \cup Raised : InvokeTool(o)
    \/ \E o \in Values \cup Raised : CheckConnection(o)
    \/ GetEndpointInfo

ObjSpec == ObjInit /\ [][ObjNext]_vars

\* ------------------------------------------------------------------------
\* The bridge: LLMBridge.process_query
\*
\* Every bridge has a client of its own (self.mcp_client).  What a call of
\* list_tools / invoke_tool on the client ends with is taken by its outcome.
\* A catalog is the list of its tools' names.  An optional value is None or
\* Some(x).
\* ------------------------------------------------------------------------

\* The most calls of process_query made on one bridge.
MaxRounds == 3

Bridges == {"b1", "b2"}

None == <<>>

Some(x) == <<x>>

BridgeCatalogs ==
    {<<>>, <<"rss_mcp_server_get_feed">>,
     <<"rss_mcp_server_get_feed", "rss_mcp_server_get_link">>}

\* An answer of call_tool the turn goes on with.
TextAnswer == [content |-> <<[type |-> "text", body |-> "a"]>>, isError |-> FALSE]

\* The answers of call_tool by what the turn can make of them: no fragment,
\* one text, one image, two texts.
ToolAnswers ==
    {[content |-> <<>>, isError |-> FALSE],
     TextAnswer,
     [content |-> <<[type |-> "image", body |-> "a"]>>, isError |-> FALSE],
     [content |-> <<[type |-> "text", body |-> "a"],
                    [type |-> "text", body |-> "b"]>>, isError |-> FALSE]}

\* Content blocks of a response of the model.  The text of the response to
\* the n-th call of process_query on a bridge is <<"text", n>>.
TextBlock(n) == [type |-> "text", text |-> <<"text", n>>]

ToolUseBlock(name) ==
    [type |-> "tool_use", name |-> name, input |-> [website |-> "example.com"]]

\* The responses the model can give as the n-th: nothing, plain text, or a
\* request for a tool with or without a remark before it.
Responses(n) ==
    {<<>>, <<TextBlock(n)>>}
        \cup {<<ToolUseBlock(t)>> : t \in ToolNames}
        \cup {<<TextBlock(n), ToolUseBlock(t)>> : t \in ToolNames}

\* A tool of the server that INTERMEDIATE_REPLY_HINTS has no entry for.
HintlessTool == "rss_mcp_server_other_tool"

\* The responses of Responses(n) and the requests for the tool without hint.
AllResponses(n) ==
    Responses(n)
        \cup {<<ToolUseBlock(HintlessTool)>>, <<TextBlock(n), ToolUseBlock(HintlessTool)>>}

\* LLMBridge(mcp_client): self.tools = None
NewBridge ==
    [tools |-> None, pc |-> "idle", rounds |-> 0, fetches |-> 0,
     modelCalls |-> 0, toolCalls |-> 0, inflight |-> 0, formatted |-> None,
     llm_response |-> <<>>, tool_call |-> None, invoked |-> None,
     tool_result |-> None, error |-> "None"]

\* The fields of a bridge: tools is self.tools; pc is where process_query
\* stands ("fetching", "model" and "tool" are its awaits); rounds counts the
\* calls of process_query; fetches, modelCalls and toolCalls count the calls
\* of list_tools, the requests to the model and the tool invocations of the
\* call in progress, inflight the tool invocations not yet over; formatted
\* is the catalog given to format_tools; llm_response, tool_call and
\* tool_result are the result of the call; invoked is the name and the
\* arguments invoke_tool was called with; error is what it raised.

\* A test for a catalog that takes the empty one for none.
IsUnfetched_Falsy(tools) == IF tools = None THEN TRUE ELSE tools[1] = <<>>

\* self.tools is None
IsUnfetched(tools) == tools = None

\* A first-to-last scan that keeps the last tool_use block.
parse_tool_call_Last(response) ==
    LET uses == {i \in 1..Len(response) : response[i].type = "tool_use"}
    IN  IF uses = {} THEN None
        ELSE LET last == CHOOSE i \in uses : \A j \in uses : j <= i
             IN  Some([name |-> response[last].name,
                       parameters |-> response[last].input])

\* A parse that looks at the first block of the response only.
parse_tool_call_FirstBlock(response) ==
    IF response # <<>> /\ response[1].type = "tool_use"
    THEN Some([name |-> response[1].name, parameters |-> response[1].input])
    ELSE None

\* parse_tool_call: name and input of the first block of type tool_use.
parse_tool_call(response) ==
    LET uses == {i \in 1..Len(response) : response[i].type = "tool_use"}
    IN  IF uses = {} THEN None
        ELSE LET first == CHOOSE i \in uses : \A j \in uses : i <= j
             IN  Some([name |-> response[first].name,
                       parameters |-> response[first].input])

\* Steps 2 and 3 of process_query up to the request to the model:
\* format_tools(self.tools), submit_query(...).
Submit(br) ==
    [br EXCEPT !.formatted = Some(br.tools[1]),
               !.modelCalls = @ + 1,
               !.pc = "model"]

\* A call of process_query up to its first suspension: the await of
\* fetch_tools() if self.tools is None, else the request to the model.
BeginQuery(br) ==
    LET called == [br EXCEPT !.rounds = @ + 1,
                             !.fetches = 0,
                             !.modelCalls = 0,
                             !.toolCalls = 0,
                             !.formatted = None,
                             !.llm_response = <<>>,
                             !.tool_call = None,
                             !.invoked = None,
                             !.tool_result = None,
                             !.error = "None"]
    IN  IF IsUnfetched(br.tools)
        THEN [called EXCEPT !.fetches = @ + 1, !.pc = "fetching"]
        ELSE Submit(called)

\* A catalog kept where every bridge finds it.
CacheCatalog_Global(bs, b, catalog) ==
    [c \in DOMAIN bs |-> [bs[c] EXCEPT !.tools = Some(catalog)]]

\* self.tools = await self.mcp_client.list_tools()
CacheCatalog(bs, b, catalog) ==
    [bs EXCEPT ![b].tools = Some(catalog)]

\* tool_name = tool_call.get('name'); kwargs = tool_call.get('parameters', {})
Invocation(tool_call) ==
    Some([tool_name |-> tool_call[1].name, kwargs |-> tool_call[1].parameters])

\* A tool started and not awaited.
Dispatch_NotAwaited(br) ==
    [br EXCEPT !.toolCalls = @ + 1, !.inflight = @ + 1, !.pc = "returned",
               !.invoked = Invocation(br.tool_call)]

\* A dispatch that asks for the feed tool whatever the model asked for.
Dispatch_FixedTool(br) ==
    [br EXCEPT !.toolCalls = @ + 1, !.inflight = @ + 1, !.pc = "tool",
               !.invoked = Some([tool_name |-> "rss_mcp_server_get_feed",
                                 kwargs |-> br.tool_call[1].parameters])]

\* Step 5 up to its await: execute_tool(tool_name, kwargs), which awaits
\* self.mcp_client.invoke_tool(tool_name, kwargs).
Dispatch(br) ==
    [br EXCEPT !.toolCalls = @ + 1, !.inflight = @ + 1, !.pc = "tool",
               !.invoked = Invocation(br.tool_call)]

\* A failed fetch that leaves an empty catalog in the cache.
RaiseFromFetch_CachesEmpty(br, e) ==
    [br EXCEPT !.tools = Some(<<>>), !.pc = "raised", !.error = e]

\* fetch_tools: list_tools() raises before self.tools is assigned, and
\* process_query has no handler for it.
RaiseFromFetch(br, e) ==
    [br EXCEPT !.pc = "raised", !.error = e]

\* list_tools() of the bridge's client returns catalog: the client keeps
\* it, fetch_tools caches it, process_query goes on to the model.
FetchOk(b, catalog) ==
    /\ bridge[b].pc = "fetching"
    /\ mcp_client' = [mcp_client EXCEPT ![b].tools = Some(catalog)]
    /\ bridge' = [CacheCatalog(bridge, b, catalog) EXCEPT
                        ![b] = Submit(CacheCatalog(bridge, b, catalog)[b])]
    /\ UNCHANGED <<raceVars, callVars, retryVars, fnVars, objVars, turnVars>>

\* list_tools() raises: the error leaves process_query.
FetchFail(b, e) ==
    /\ bridge[b].pc = "fetching"
    /\ bridge' = [bridge EXCEPT ![b] = RaiseFromFetch(@, e)]
    /\ UNCHANGED <<raceVars, callVars, retryVars, fnVars, objVars, turnVars, mcp_client>>

\* The model answers: step 4 parses the response; with a tool call step 5
\* dispatches it, without one process_query returns.
ModelReply(b, response) ==
    /\ bridge[b].pc = "model"
    /\ response \in AllResponses(bridge[b].rounds)
    /\ LET parsed == [bridge[b] EXCEPT !.llm_response = response,
                                       !.tool_call = parse_tool_call(response)]
       IN  bridge' = [bridge EXCEPT ![b] =
                        IF parsed.tool_call # None
                        THEN Dispatch(parsed)
                        ELSE [parsed EXCEPT !.pc = "returned"]]
    /\ UNCHANGED <<raceVars, callVars, retryVars, fnVars, objVars, turnVars, mcp_client>>

\* invoke_tool() returns: process_query returns with the tool result.
ToolReturn(b, answer) ==
    /\ bridge[b].pc = "tool"
    /\ bridge' = [bridge EXCEPT ![b].inflight = @ - 1,
                                ![b].tool_result = Some(ToolInvocationResult(answer)),
                                ![b].pc = "returned"]
    /\ UNCHANGED <<raceVars, callVars, retryVars, fnVars, objVars, turnVars, mcp_client>>

\* invoke_tool() raises: the error leaves process_query.
ToolRaise(b, e) ==
    /\ bridge[b].pc = "tool"
    /\ bridge' = [bridge EXCEPT ![b].inflight = @ - 1,
                                ![b].pc = "raised",
                                ![b].error = e]
    /\ UNCHANGED <<raceVars, callVars, retryVars, fnVars, objVars, turnVars, mcp_client>>

\* A caller awaits bridge.process_query(system_prompt, query).
DirectCall(b) ==
    /\ bridge[b].pc \in {"idle", "returned", "raised"}
    /\ bridge[b].rounds < MaxRounds
    /\ bridge' = [bridge EXCEPT ![b] = BeginQuery(@)]
    /\ UNCHANGED <<raceVars, callVars, retryVars, fnVars, objVars, turnVars, mcp_client>>

\* Two bridges have been constructed, each on a client of its own.
BridgeInit ==
    /\ RetryFrozen
    /\ FnIdle
    /\ ObjIdle
    /\ TurnIdle
    /\ CallIdle
    /\ RaceIdle
    /\ bridge = [b \in Bridges |-> NewBridge]
    /\ mcp_client = [b \in Bridges |-> [tools |-> None]]

BridgeNext ==
    \E b \in Bridges :
        \/ DirectCall(b)
        \/ \E catalog \in BridgeCatalogs : FetchOk(b, catalog)
        \/ \E e \in Raised : FetchFail(b, e)
        \/ \E n \in 1..MaxRounds : \E response \in Responses(n) : ModelReply(b, response)
        \/ \E answer \in ToolAnswers : ToolReturn(b, answer)
        \/ \E e \in Raised : ToolRaise(b, e)

BridgeSpec == BridgeInit /\ [][BridgeNext]_vars

\* ------------------------------------------------------------------------
\* One user turn: agent_input (interface.py) and tool_loop
\* (tool_workflows.py)
\*
\* The turn runs on bridge TurnBridge.  agent_input makes the first call of
\* process_query.  A result with a tool result is handled either by the
\* branch of agent_input itself or by tool_loop, the handler of
\* tool_workflows.py that takes such a result from its caller.  A text is a
\* pair <<words, n>>: <<"text", n>> is the text of the model's n-th
\* response, n = 0 marks a text the client makes up.
\* ------------------------------------------------------------------------

TurnBridge == "b1"

\* The awaits of process_query in a turn: agent_input line 31,
\* get_feed_call line 144, other_call line 182.
Awaiting == {"agent_input", "get_feed_call", "other_call"}

\* The names prompts.py defines.
PromptNames ==
    {"DEFAULT_SYSTEM_PROMPT", "REPROMPTING_SYSTEM_PROMPT", "GET_FEED_PROMPT",
     "OTHER_TOOL_PROMPT"}

\* INTERMEDIATE_REPLY_HINTS
INTERMEDIATE_REPLY_HINTS ==
    [t \in {"rss_mcp_server_context_search", "rss_mcp_server_find_article",
            "rss_mcp_server_get_summary", "rss_mcp_server_get_link"} |->
        CASE t = "rss_mcp_server_context_search" ->
                <<"Let me find some additional context before I generate a final answer.", 0>>
          [] t = "rss_mcp_server_find_article" ->
                <<"I will find the title of that article.", 0>>
          [] t = "rss_mcp_server_get_summary" ->
                <<"I will summarize that article", 0>>
          [] OTHER -> <<"I will get the link to that article", 0>>]

\* The user's message and the reply the caller of tool_loop passes on.
UserQuery == "user_query"

PriorReply == "prior_reply"

\* json.loads(content)['text']: content has to be one JSON object, and the
\* object has to have the key 'text', which a text fragment has.
json_loads_text(content) ==
    IF Len(content) = 4 /\ content[1] = "{" /\ content[4] = "}"
    THEN IF content[2] = "text"
         THEN [ok |-> TRUE, value |-> content[3], error |-> "None"]
         ELSE [ok |-> FALSE, value |-> "", error |-> "KeyError"]
    ELSE [ok |-> FALSE, value |-> "", error |-> "JSONDecodeError"]

\* What the turn keeps of a call of process_query that is over.
Result(br) ==
    [llm_response |-> br.llm_response, tool_call |-> br.tool_call,
     tool_result |-> br.tool_result, modelCalls |-> br.modelCalls,
     toolCalls |-> br.toolCalls, error |-> br.error]

\* result['llm_response'].content[0].text under try: the exceptions of
\* caught give the fallback, IndexError (no block) or AttributeError (a
\* block without text) outside caught is raised.
FirstText(response, caught, fallback) ==
    LET e == IF response = <<>> THEN "IndexError"
             ELSE IF response[1].type # "text" THEN "AttributeError"
             ELSE "None"
    IN  IF e = "None" THEN [ok |-> TRUE, text |-> response[1].text, error |-> e]
        ELSE IF e \in caught THEN [ok |-> TRUE, text |-> <<fallback, 0>>, error |-> "None"]
        ELSE [ok |-> FALSE, text |-> <<"None", 0>>, error |-> e]

\* The remark before a tool call: the text of the first block if it is a
\* TextBlock, else the made-up one.
IntermediateReply(response, made_up) ==
    IF response[1].type = "text" THEN response[1].text ELSE <<made_up, 0>>

\* A remark made up for a tool that has no hint.
HintFor_Guess(tool_name) ==
    [ok |-> TRUE, text |-> <<"", 0>>, error |-> "None"]

\* INTERMEDIATE_REPLY_HINTS[tool_name]
HintFor(tool_name) ==
    IF tool_name \in DOMAIN INTERMEDIATE_REPLY_HINTS
    THEN [ok |-> TRUE, text |-> INTERMEDIATE_REPLY_HINTS[tool_name], error |-> "None"]
    ELSE [ok |-> FALSE, text |-> <<"None", 0>>, error |-> "KeyError"]

\* The remark before a call of a tool other than the feed tool: the text of
\* the first block if it is a TextBlock, else the hint of the tool.
LoopRemark(response, tool_name) ==
    IF response[1].type = "text"
    THEN [ok |-> TRUE, text |-> response[1].text, error |-> "None"]
    ELSE HintFor(tool_name)

\* What a prompt says of one tool call: the remark, the call, the result.
CallSegment(remark, call, tool_result) ==
    [intermediate_reply |-> remark, tool_name |-> call.name,
     tool_parameters |-> call.parameters, tool_result |-> tool_result]

\* A prompt that keeps its head and the last call only.
Extend_LastOnly(text, segment) == <<text[1], segment>>

\* prompt += ...
Extend(text, segment) == Append(text, segment)

\* What a result with a tool result gives the loop: the remark and the
\* decoded result, or the exception of the first of the two that fails.
Digest(br) ==
    LET remark == LoopRemark(br.llm_response, br.tool_call[1].name)
        decoded == json_loads_text(br.tool_result[1].content)
    IN  IF ~remark.ok THEN [ok |-> FALSE, error |-> remark.error, segment |-> <<>>]
        ELSE IF ~decoded.ok THEN [ok |-> FALSE, error |-> decoded.error, segment |-> <<>>]
        ELSE [ok |-> TRUE, error |-> "None",
              segment |-> CallSegment(remark.text, br.tool_call[1], decoded.value)]

\* agent_input up to its await of bridge.process_query(DEFAULT_SYSTEM_PROMPT,
\* input_messages).
AgentInput ==
    /\ tpc = "idle"
    /\ bridge[TurnBridge].pc = "idle"
    /\ bridge' = [bridge EXCEPT ![TurnBridge] = BeginQuery(@)]
    /\ tpc' = "agent_input"
    /\ UNCHANGED <<raceVars, callVars, retryVars, fnVars, objVars, mcp_client, handler, results,
                   output_queue, reply, turnError, prompt>>

\* process_query raises into the turn: no function of the turn catches.
QueryRaised ==
    /\ tpc \in Awaiting
    /\ bridge[TurnBridge].pc = "raised"
    /\ results' = Append(results, Result(bridge[TurnBridge]))
    /\ turnError' = bridge[TurnBridge].error
    /\ tpc' = "raised"
    /\ UNCHANGED <<raceVars, callVars, retryVars, fnVars, objVars, bridgeVars, handler,
                   output_queue, reply, prompt>>

\* agent_input, result['tool_result'] is None: lines 87-98.
NoToolReply ==
    /\ tpc = "agent_input"
    /\ bridge[TurnBridge].pc = "returned"
    /\ bridge[TurnBridge].tool_result = None
    /\ results' = Append(results, Result(bridge[TurnBridge]))
    /\ LET first == FirstText(bridge[TurnBridge].llm_response, {"AttributeError"},
                              "Bad reply - could not parse")
       IN  IF first.ok
           THEN /\ reply' = first.text
                /\ output_queue' = output_queue \o <<first.text, <<"bot-finished", 0>>>>
                /\ tpc' = "finished"
                /\ UNCHANGED turnError
           ELSE /\ turnError' = first.error
                /\ tpc' = "raised"
                /\ UNCHANGED <<reply, output_queue>>
    /\ UNCHANGED <<raceVars, callVars, retryVars, fnVars, objVars, bridgeVars, handler, prompt>>

\* agent_input, result['tool_result'] is set: lines 37-96.  For the feed
\* tool the remark is put on the queue and the articles are decoded; the
\* re-prompt names prompts.GET_FEED_SYSTEM_PROMPT, which prompts.py does not
\* define.  For another tool nothing binds reply before line 96.
AgentInputTool ==
    /\ tpc = "agent_input"
    /\ bridge[TurnBridge].pc = "returned"
    /\ bridge[TurnBridge].tool_result # None
    /\ handler' = "agent_input"
    /\ results' = Append(results, Result(bridge[TurnBridge]))
    /\ tpc' = "raised"
    /\ IF bridge[TurnBridge].tool_call[1].name = "rss_mcp_server_get_feed"
       THEN LET articles == json_loads_text(bridge[TurnBridge].tool_result[1].content)
            IN  /\ output_queue' =
                        Append(output_queue,
                               IntermediateReply(bridge[TurnBridge].llm_response,
                                                 "I Will check the RSS feed for you"))
                /\ turnError' = IF ~articles.ok THEN articles.error
                                ELSE IF "GET_FEED_SYSTEM_PROMPT" \notin PromptNames
                                THEN "AttributeError"
                                ELSE "None"
       ELSE /\ turnError' = "UnboundLocalError"
            /\ UNCHANGED output_queue
    /\ UNCHANGED <<raceVars, callVars, retryVars, fnVars, objVars, bridgeVars, reply, prompt>>

\* tool_loop(user_query, prior_reply, result, ...) with the result of the
\* first call: for the feed tool get_feed_call up to its await of
\* process_query (lines 114-147), for another tool lines 52-76 and
\* other_call up to its await (lines 177-185).
ToolLoop ==
    /\ tpc = "agent_input"
    /\ bridge[TurnBridge].pc = "returned"
    /\ bridge[TurnBridge].tool_result # None
    /\ handler' = "tool_loop"
    /\ results' = Append(results, Result(bridge[TurnBridge]))
    /\ LET br == bridge[TurnBridge]
           articles == json_loads_text(br.tool_result[1].content)
           digest == Digest(br)
       IN  IF br.tool_call[1].name = "rss_mcp_server_get_feed"
           THEN IF articles.ok
                THEN /\ prompt' =
                            <<[template |-> "GET_FEED_PROMPT",
                               website |-> br.tool_call[1].parameters.website,
                               user_query |-> UserQuery,
                               intermediate_reply |->
                                    IntermediateReply(br.llm_response,
                                                      "I Will check the RSS feed for you"),
                               articles |-> articles.value]>>
                     /\ bridge' = [bridge EXCEPT ![TurnBridge] = BeginQuery(@)]
                     /\ tpc' = "get_feed_call"
                     /\ UNCHANGED turnError
                ELSE /\ turnError' = articles.error
                     /\ tpc' = "raised"
                     /\ UNCHANGED <<bridge, prompt>>
           ELSE IF digest.ok
                THEN /\ prompt' =
                            <<[template |-> "OTHER_TOOL_PROMPT",
                               user_query |-> UserQuery,
                               prior_reply |-> PriorReply],
                              digest.segment>>
                     /\ bridge' = [bridge EXCEPT ![TurnBridge] = BeginQuery(@)]
                     /\ tpc' = "other_call"
                     /\ UNCHANGED turnError
                ELSE /\ turnError' = digest.error
                     /\ tpc' = "raised"
                     /\ UNCHANGED <<bridge, prompt>>
    /\ UNCHANGED <<raceVars, callVars, retryVars, fnVars, objVars, mcp_client, output_queue, reply>>

\* get_feed_call after its await (lines 149-158): the reply is put on the
\* queue; the function has no return statement, so tool_loop puts its None
\* on the queue after it (line 49).
GetFeedReturned ==
    /\ tpc = "get_feed_call"
    /\ bridge[TurnBridge].pc = "returned"
    /\ results' = Append(results, Result(bridge[TurnBridge]))
    /\ LET first == FirstText(bridge[TurnBridge].llm_response,
                              {"IndexError", "AttributeError"},
                              "No final reply from model")
       IN  /\ reply' = first.text
           /\ output_queue' = output_queue \o <<first.text, <<"None", 0>>>>
    /\ tpc' = "finished"
    /\ UNCHANGED <<raceVars, callVars, retryVars, fnVars, objVars, bridgeVars, handler, turnError,
                   prompt>>

\* other_call after its await (lines 187-215) and the rest of the loop of
\* tool_loop (lines 86-93): with a tool result the prompt grows and
\* other_call is called again, without one the text of the response is the
\* final reply.  The loop has no bound.  Past MaxRounds calls of
\* process_query the model goes round as the code does and stops counting:
\* rounds stays at MaxRounds, results and prompt keep what the first
\* MaxRounds - 1 calls gave.
OtherCallReturned ==
    /\ tpc = "other_call"
    /\ bridge[TurnBridge].pc = "returned"
    /\ LET br == bridge[TurnBridge]
           digest == Digest(br)
           first == FirstText(br.llm_response, {}, "")
       IN  IF br.tool_result # None
           THEN IF digest.ok
                THEN /\ IF br.rounds < MaxRounds
                        THEN /\ bridge' = [bridge EXCEPT ![TurnBridge] = BeginQuery(@)]
                             /\ results' = Append(results, Result(br))
                             /\ prompt' = Extend(prompt, digest.segment)
                        ELSE /\ bridge' = [bridge EXCEPT ![TurnBridge] =
                                            [BeginQuery(@) EXCEPT !.rounds = MaxRounds]]
                             /\ UNCHANGED <<results, prompt>>
                     /\ UNCHANGED <<tpc, turnError, reply, output_queue>>
                ELSE /\ results' = Append(results, Result(br))
                     /\ turnError' = digest.error
                     /\ tpc' = "raised"
                     /\ UNCHANGED <<bridge, reply, output_queue, prompt>>
           ELSE /\ results' = Append(results, Result(br))
                /\ IF first.ok
                   THEN /\ reply' = first.text
                        /\ output_queue' = Append(output_queue, first.text)
                        /\ tpc' = "finished"
                        /\ UNCHANGED <<bridge, turnError, prompt>>
                   ELSE /\ turnError' = first.error
                        /\ tpc' = "raised"
                        /\ UNCHANGED <<bridge, reply, output_queue, prompt>>
    /\ UNCHANGED <<raceVars, callVars, retryVars, fnVars, objVars, mcp_client, handler>>

\* A bridge on a client of its own, and a user message for agent_input.
TurnInit ==
    /\ RetryFrozen
    /\ FnIdle
    /\ ObjIdle
    /\ bridge = [b \in Bridges |-> NewBridge]
    /\ mcp_client = [b \in Bridges |-> [tools |-> None]]
    /\ tpc = "idle"
    /\ handler = "none"
    /\ results = <<>>
    /\ output_queue = <<>>
    /\ reply = <<"None", 0>>
    /\ turnError = "None"
    /\ prompt = <<>>
    /\ CallIdle
    /\ RaceIdle

TurnNext ==
    \/ AgentInput
    \/ QueryRaised
    \/ NoToolReply
    \/ AgentInputTool
    \/ ToolLoop
    \/ GetFeedReturned
    \/ OtherCallReturned
    \/ \E catalog \in BridgeCatalogs : FetchOk(TurnBridge, catalog)
    \/ \E e \in Raised : FetchFail(TurnBridge, e)
    \/ \E n \in 1..MaxRounds : \E response \in AllResponses(n) :
            ModelReply(TurnBridge, response)
    \/ \E answer \in ToolAnswers : ToolReturn(TurnBridge, answer)
    \/ \E e \in Raised : ToolRaise(TurnBridge, e)

TurnSpec == TurnInit /\ [][TurnNext]_vars

\* The event loop runs what can run, and every awaited request to the model
\* or to the server is answered or fails: a step of the turn that can be
\* taken is taken.
FairTurnSpec == TurnSpec /\ WF_vars(TurnNext)

\* ------------------------------------------------------------------------
\* The functions of anthropic_bridge.py that compute without state:
\* parse_tool_call, to_anthropic_format, _infer_array_item_type
\*
\* A name or a description that the code searches for substrings is the
\* sequence of its characters.
\* ------------------------------------------------------------------------

\* The longest list of tools and of parameters given to to_anthropic_format.
MaxTools == 2

MaxParams == 2

\* The most content blocks of a response given to parse_tool_call.
MaxBlocks == 3

\* TYPE_MAPPING
TYPE_MAPPING ==
    [t \in {"int", "bool", "str", "float", "list", "dict", "boolean", "string",
            "integer", "number", "array", "object"} |->
        CASE t \in {"int", "integer"} -> "integer"
          [] t \in {"bool", "boolean"} -> "boolean"
          [] t \in {"str", "string"} -> "string"
          [] t \in {"float", "number"} -> "number"
          [] t \in {"list", "array"} -> "array"
          [] OTHER -> "object"]

\* 'tag_ids', 'max_count', 'items', 'Tags'
tag_ids == <<"t", "a", "g", "_", "i", "d", "s">>

max_count == <<"m", "a", "x", "_", "c", "o", "u", "n", "t">>

ArrayNames == {tag_ids, max_count, <<"i", "t", "e", "m", "s">>, <<"T", "a", "g", "s">>}

\* '', 'text', 'integers', 'points', 'items'
Descriptions ==
    {<<>>, <<"t", "e", "x", "t">>, <<"i", "n", "t", "e", "g", "e", "r", "s">>,
     <<"p", "o", "i", "n", "t", "s">>, <<"i", "t", "e", "m", "s">>}

\* The hints of _infer_array_item_type: for the name ['language', 'code',
\* 'tag', 'name', 'id'] and ['number', 'count', 'amount', 'index'], for the
\* description 'string', 'text', 'language' and 'number', 'integer', 'int'.
NameStringHints ==
    {<<"l", "a", "n", "g", "u", "a", "g", "e">>, <<"c", "o", "d", "e">>,
     <<"t", "a", "g">>, <<"n", "a", "m", "e">>, <<"i", "d">>}

NameIntegerHints ==
    {<<"n", "u", "m", "b", "e", "r">>, <<"c", "o", "u", "n", "t">>,
     <<"a", "m", "o", "u", "n", "t">>, <<"i", "n", "d", "e", "x">>}

DescStringHints ==
    {<<"s", "t", "r", "i", "n", "g">>, <<"t", "e", "x", "t">>,
     <<"l", "a", "n", "g", "u", "a", "g", "e">>}

DescIntegerHints ==
    {<<"n", "u", "m", "b", "e", "r">>, <<"i", "n", "t", "e", "g", "e", "r">>,
     <<"i", "n", "t">>}

\* str.lower() on the characters the names here have.
LowerChar(c) ==
    CASE c = "T" -> "t"
      [] c = "I" -> "i"
      [] c = "D" -> "d"
      [] OTHER -> c

lower(s) == [i \in 1..Len(s) |-> LowerChar(s[i])]

\* hint in s
Contains(hint, s) ==
    \E i \in 0..(Len(s) - Len(hint)) : SubSeq(s, i + 1, i + Len(hint)) = hint

\* any(hint in s for hint in hints)
AnyIn(hints, s) == \E hint \in hints : Contains(hint, s)

\* _infer_array_item_type: the name is looked at, then the description,
\* and a hint of the description replaces what the name gave.
infer_array_item_type(param) ==
    LET param_name_lower == lower(param.name)
        desc_lower == lower(param.description)
        by_name == IF AnyIn(NameStringHints, param_name_lower) THEN "string"
                   ELSE IF AnyIn(NameIntegerHints, param_name_lower) THEN "integer"
                   ELSE "string"
    IN  IF param.description # <<>>
        THEN IF AnyIn(DescStringHints, desc_lower) THEN "string"
             ELSE IF AnyIn(DescIntegerHints, desc_lower) THEN "integer"
             ELSE by_name
        ELSE by_name

\* A test of the default by its truth value.
HasDefault_Truthy(param) ==
    param.default # None /\ param.default[1] # 0

\* param.default is not None
HasDefault(param) == param.default # None

\* The schema of one parameter: param_schema of to_anthropic_format with
\* 'items' for an array and 'default' if there is one.
ParamSchema(param) ==
    LET schema_type == Get(TYPE_MAPPING, param.parameter_type, param.parameter_type)
        items == [type |-> infer_array_item_type(param)]
    IN  IF schema_type = "array"
        THEN IF HasDefault(param)
             THEN [type |-> schema_type, description |-> param.description,
                   items |-> items, default |-> param.default[1]]
             ELSE [type |-> schema_type, description |-> param.description,
                   items |-> items]
        ELSE IF HasDefault(param)
             THEN [type |-> schema_type, description |-> param.description,
                   default |-> param.default[1]]
             ELSE [type |-> schema_type, description |-> param.description]

\* anthropic_tool of to_anthropic_format: properties is a dict, a later
\* parameter of the same name replaces an earlier one; required is a list.
AnthropicTool(tool) ==
    LET params == tool.parameters
        names == {params[i].name : i \in 1..Len(params)}
        last(n) == CHOOSE i \in 1..Len(params) :
                        /\ params[i].name = n
                        /\ \A j \in 1..Len(params) : params[j].name = n => j <= i
        marked == SelectSeq(params, LAMBDA p : p.required)
    IN  [name |-> tool.name,
         description |-> tool.description,
         input_schema |->
            [type |-> "object",
             properties |-> [n \in names |-> ParamSchema(params[last(n)])],
             required |-> [i \in 1..Len(marked) |-> marked[i].name]]]

\* to_anthropic_format
to_anthropic_format(tools) == [i \in 1..Len(tools) |-> AnthropicTool(tools[i])]

\* The parameters given to _infer_array_item_type: array parameters.
InferParams ==
    [name : ArrayNames, parameter_type : {"array"}, description : Descriptions,
     required : {FALSE}, default : {None}]

\* The parameters of the tools given to to_anthropic_format: two names,
\* types inside and outside TYPE_MAPPING, required or not, no default or
\* the default 0.
FormatParams ==
    [name : {tag_ids, max_count},
     parameter_type : {"int", "list", "array", "frobnicate"},
     description : {<<"i", "n", "t", "e", "g", "e", "r", "s">>},
     required : BOOLEAN,
     default : {None, Some(0)}]

\* The lists of up to MaxParams parameters of different names.
RECURSIVE ParamLists(_)
ParamLists(n) ==
    IF n = 0 THEN {<<>>}
    ELSE ParamLists(n - 1)
            \cup {Append(l, p) : l \in {k \in ParamLists(n - 1) : Len(k) = n - 1},
                                 p \in FormatParams}

DistinctNames(params) ==
    \A i, j \in 1..Len(params) : params[i].name = params[j].name => i = j

\* The lists of tools given to to_anthropic_format: a first tool with any
\* parameters, then tools without parameters of the other names.
RECURSIVE FormatTools(_)
FormatTools(n) ==
    IF n = 0 THEN {<<>>}
    ELSE IF n = 1
    THEN {<<>>}
            \cup {<<[name |-> "rss_mcp_server_get_feed", description |-> "feed",
                     parameters |-> l]>> :
                        l \in {k \in ParamLists(MaxParams) : DistinctNames(k)}}
    ELSE FormatTools(n - 1)
            \cup {Append(l, [name |-> t, description |-> "other",
                             parameters |-> <<>>]) :
                    l \in {k \in FormatTools(n - 1) : Len(k) = n - 1},
                    t \in {"rss_mcp_server_get_link", HintlessTool}}

\* The responses given to parse_tool_call: up to MaxBlocks blocks, each a
\* text or a request for one of two tools.
RECURSIVE BlockLists(_)
BlockLists(n) ==
    IF n = 0 THEN {<<>>}
    ELSE BlockLists(n - 1)
            \cup {Append(l, b) : l \in {k \in BlockLists(n - 1) : Len(k) = n - 1},
                                 b \in {TextBlock(1)} \cup {ToolUseBlock(t) : t \in ToolNames}}

\* The three functions applied to their argument.
ParseToolCall ==
    /\ callee = "parse_tool_call" /\ callPc = "called"
    /\ retval' = parse_tool_call(argument)
    /\ callPc' = "returned"
    /\ UNCHANGED <<raceVars, retryVars, fnVars, objVars, bridgeVars, turnVars, callee, argument>>

ToAnthropicFormat ==
    /\ callee = "to_anthropic_format" /\ callPc = "called"
    /\ retval' = to_anthropic_format(argument)
    /\ callPc' = "returned"
    /\ UNCHANGED <<raceVars, retryVars, fnVars, objVars, bridgeVars, turnVars, callee, argument>>

InferArrayItemType ==
    /\ callee = "_infer_array_item_type" /\ callPc = "called"
    /\ retval' = infer_array_item_type(argument)
    /\ callPc' = "returned"
    /\ UNCHANGED <<raceVars, retryVars, fnVars, objVars, bridgeVars, turnVars, callee, argument>>

\* The arguments a model can put into a tool-call block: a value for any of
\* the parameters.
BlockInputs ==
    {[n \in D |-> v] : D \in SUBSET ParamNames, v \in {"example.com", "d1"}}

\* The round trips: a tool of the server, the arguments of the block, and
\* whether the model puts a remark before the block.
RoundTrips ==
    [tool : RemoteTools, input : BlockInputs, remark : BOOLEAN]

\* A ToolParameter as list_tools made it, read by to_anthropic_format: the
\* default None of param_schema.get('default') is None, any other a value.
ToolParameter(p) ==
    [p EXCEPT !.default = IF @ = "None" THEN None ELSE Some(@)]

\* The ToolDef objects of list_tools as format_tools is given them.
ToolDefs(defs) ==
    [i \in 1..Len(defs) |->
        [defs[i] EXCEPT !.parameters =
            [j \in 1..Len(defs[i].parameters) |-> ToolParameter(defs[i].parameters[j])]]]

\* A response of the model with one tool-call block for the formatted tool.
SyntheticResponse(formatted_tool, input, remark) ==
    LET block == [type |-> "tool_use", name |-> formatted_tool.name, input |-> input]
    IN  IF remark THEN <<TextBlock(1), block>> ELSE <<block>>

\* list_tools maps a tool of the server, to_anthropic_format formats it,
\* and parse_tool_call parses a response that asks for it.
RoundTrip ==
    /\ callee = "round_trip" /\ callPc = "called"
    /\ LET discovered == MapTools(<<argument.tool>>, AppEndpoint)
           formatted == to_anthropic_format(ToolDefs(discovered))
           response == SyntheticResponse(formatted[1], argument.input, argument.remark)
       IN  retval' = [discovered |-> discovered,
                      formatted |-> formatted,
                      response |-> response,
                      tool_call |-> parse_tool_call(response)]
    /\ callPc' = "returned"
    /\ UNCHANGED <<raceVars, retryVars, fnVars, objVars, bridgeVars, turnVars, callee, argument>>

\* One of the functions is called with an argument.
CallInit ==
    /\ RetryFrozen
    /\ FnIdle
    /\ ObjIdle
    /\ BridgeIdle
    /\ TurnIdle
    /\ RaceIdle
    /\ callPc = "called"
    /\ retval = None
    /\ \/ callee = "parse_tool_call" /\ argument \in BlockLists(MaxBlocks)
       \/ callee = "to_anthropic_format" /\ argument \in FormatTools(MaxTools)
       \/ callee = "_infer_array_item_type" /\ argument \in InferParams
       \/ callee = "round_trip" /\ argument \in RoundTrips

CallNext ==
    \/ ParseToolCall
    \/ ToAnthropicFormat
    \/ InferArrayItemType
    \/ RoundTrip

CallSpec == CallInit /\ [][CallNext]_vars

\* ------------------------------------------------------------------------
\* Two calls of process_query in progress on one bridge
\*
\* The calls run as tasks of one event loop and give way to each other at
\* their awaits only: the await of list_tools() inside fetch_tools, of the
\* request to the model, of invoke_tool().  self.tools belongs to the
\* bridge, everything else to the call.
\* ------------------------------------------------------------------------

Queries == {"q1", "q2"}

\* A call as it reads self.tools of the bridge.
OnBridge(call) == [call EXCEPT !.tools = self_tools]

\* process_query is called: up to the await of fetch_tools() if self.tools
\* is None, else up to the request to the model.
RaceCall(q) ==
    /\ query[q].pc = "idle"
    /\ query' = [query EXCEPT ![q] = BeginQuery(OnBridge(@))]
    /\ UNCHANGED <<retryVars, fnVars, objVars, bridgeVars, turnVars, callVars,
                   self_tools>>

\* list_tools() returns to a call: fetch_tools assigns self.tools, the call
\* goes on to the model.
RaceFetchOk(q, catalog) ==
    /\ query[q].pc = "fetching"
    /\ self_tools' = Some(catalog)
    /\ query' = [query EXCEPT ![q] = Submit([@ EXCEPT !.tools = Some(catalog)])]
    /\ UNCHANGED <<retryVars, fnVars, objVars, bridgeVars, turnVars, callVars>>

\* list_tools() raises into a call.
RaceFetchFail(q, e) ==
    /\ query[q].pc = "fetching"
    /\ query' = [query EXCEPT ![q] = RaiseFromFetch(OnBridge(@), e)]
    /\ UNCHANGED <<retryVars, fnVars, objVars, bridgeVars, turnVars, callVars,
                   self_tools>>

\* The model answers a call.
RaceModelReply(q, response) ==
    /\ query[q].pc = "model"
    /\ LET parsed == [OnBridge(query[q]) EXCEPT
                            !.llm_response = response,
                            !.tool_call = parse_tool_call(response)]
       IN  query' = [query EXCEPT ![q] =
                        IF parsed.tool_call # None
                        THEN Dispatch(parsed)
                        ELSE [parsed EXCEPT !.pc = "returned"]]
    /\ UNCHANGED <<retryVars, fnVars, objVars, bridgeVars, turnVars, callVars,
                   self_tools>>

\* invoke_tool() returns to a call or raises into it.
RaceToolReturn(q, answer) ==
    /\ query[q].pc = "tool"
    /\ query' = [query EXCEPT ![q] =
                    [OnBridge(@) EXCEPT !.inflight = @ - 1,
                                        !.tool_result = Some(ToolInvocationResult(answer)),
                                        !.pc = "returned"]]
    /\ UNCHANGED <<retryVars, fnVars, objVars, bridgeVars, turnVars, callVars,
                   self_tools>>

RaceToolRaise(q, e) ==
    /\ query[q].pc = "tool"
    /\ query' = [query EXCEPT ![q] =
                    [OnBridge(@) EXCEPT !.inflight = @ - 1,
                                        !.pc = "raised",
                                        !.error = e]]
    /\ UNCHANGED <<retryVars, fnVars, objVars, bridgeVars, turnVars, callVars,
                   self_tools>>

\* A bridge just constructed, and two calls of process_query to be made.
RaceInit ==
    /\ RetryFrozen
    /\ FnIdle
    /\ ObjIdle
    /\ BridgeIdle
    /\ TurnIdle
    /\ CallIdle
    /\ self_tools = None
    /\ query = [q \in Queries |-> NewBridge]

RaceNext ==
    \E q \in Queries :
        \/ RaceCall(q)
        \/ \E catalog \in BridgeCatalogs : RaceFetchOk(q, catalog)
        \/ \E e \in Raised : RaceFetchFail(q, e)
        \/ \E response \in Responses(1) : RaceModelReply(q, response)
        \/ \E answer \in ToolAnswers : RaceToolReturn(q, answer)
        \/ \E e \in Raised : RaceToolRaise(q, e)

RaceSpec == RaceInit /\ [][RaceNext]_vars

\* ------------------------------------------------------------------------
\* Properties
\* ------------------------------------------------------------------------

\* C1: when every attempt of a call fails with a retryable error that is no
\* timeout, the call ends only after exactly max_retries attempts, wherever
\* in the attempt the failure happens (connecting, handshake, list/call).
C1_ExactlyMaxRetriesAttempts ==
    (pc \in {"raised", "cancelled"} /\ onlyRetryable) => attempts = max_retries

C3_SurfacedByLastFailure ==
    pc = "raised" =>
        /\ fails # <<>>
        /\ surfaced = IF Last(fails) = "TimeoutError"
                      THEN "MCPTimeoutError"
                      ELSE "MCPConnectionError"
        /\ surfaced = "MCPConnectionError" => wrapped = Last(fails)

C3_Witness ==
    /\ pc = "raised"
    /\ max_retries >= 2
    /\ attempts = max_retries
    /\ \A i \in 1..(Len(fails) - 1) : fails[i] = "TimeoutError"
    /\ Last(fails) = "ConnectError"
    /\ surfaced = "MCPConnectionError"

\* C4: a call whose attempt k succeeds after k-1 retryable failures returns
\* the value that attempt produced, and after the return no attempt starts
\* and no backoff wait happens in that call.
C4_SuccessReturnsValue ==
    /\ [](pc = "returned" =>
            /\ result = outcome
            /\ result \in Values
            /\ attempts = Len(fails) + 1
            /\ \A i \in 1..Len(fails) : fails[i] \notin {"ValueError", "TypeError"}
            /\ Len(waits) = Len(fails)
            /\ wait_time = 0)
    /\ [][pc = "returned" =>
            \/ calls' = calls + 1
            \/ pc' = "returned" /\ UNCHANGED <<attempts, totalAttempts, waits,
                                               wait_time, result>>]_vars

C4_Witness ==
    /\ pc = "returned"
    /\ attempts = 3
    /\ Len(fails) = 2
    /\ result = "v2"

\* What the backoff of a call that fails max_retries = n times adds up to.
ExpectedWaits(n) == [i \in 1..(n - 1) |-> Pow2(i - 1)]

\* C5: the wait after failed attempt i (from 0) is 2^i, with none after the
\* last attempt; a call whose attempts all fail with a retryable error ends
\* having waited 1, 2, ..., 2^(max_retries-2), 2^(max_retries-1) - 1 in all.
C5_BackoffSchedule ==
    /\ \A i \in 1..Len(waits) : waits[i] = Pow2(i - 1)
    /\ (pc \in {"raised", "cancelled"} /\ onlyRetryable) =>
            /\ waits = ExpectedWaits(max_retries)
            /\ SumSeq(waits) = Pow2(max_retries - 1) - 1

\* C6: every attempt is ended by the timeout at the latest, so every call of
\* _execute_with_retry eventually returns or raises.
C6_CallTerminates ==
    [](pc \in {"attempt", "backoff"} => <>(pc \in Ended))

C8_CancellationConfined ==
    ~cancelReq /\ pc # "cancelled"

\* C9: an attempt asks for exactly one connection, and that connection is
\* closed before the outcome of the attempt reaches the supervisor; nothing
\* is open once list_tools or invoke_tool has returned or raised.
C9_ConnectionClosedOnEveryExit ==
    /\ pc = "attempt" =>
            Cardinality({i \in 1..Len(conns) :
                            <<calls, attempt>> \in conns[i].users}) = 1
    /\ \A i \in 1..Len(conns) :
            conns[i].state # "closed" =>
                /\ i = Len(conns)
                /\ pc = "attempt"
                /\ opPc \in Suspended

C9_Witness ==
    /\ pc = "attempt"
    /\ opPc = "failed"
    /\ outcome = "TimeoutError"
    /\ session
    /\ conns[Len(conns)].state = "closed"

\* C10: a connection is used by one attempt of one call only: as many
\* connections are requested as attempts are started, and a list/call runs
\* on the connection its own attempt opened and initialized.
C10_ConnectionNeverReused ==
    /\ Len(conns) = totalAttempts
    /\ \A i \in 1..Len(conns) : Cardinality(conns[i].users) = 1
    /\ \A i, j \in 1..Len(conns) :
            i # j => conns[i].users \cap conns[j].users = {}
    /\ (pc = "attempt" /\ opPc \in Suspended) =>
            conns[Len(conns)].users = {<<calls, attempt>>}
    /\ (pc = "attempt" /\ opPc = "request") =>
            initialized /\ conns[Len(conns)].state = "open"

C10_Witness ==
    /\ calls = 2
    /\ attempt >= 1
    /\ pc = "attempt"
    /\ opPc = "request"
    /\ Len(conns) >= 3

\* C11: in every session the request of list_tools / call_tool is sent only
\* once initialize() has returned, a session that ran to its end has sent
\* exactly one request, no session sends more than one, and a session whose
\* handshake failed or timed out has sent none.
C11_HandshakeBeforeSingleRequest ==
    /\ [](/\ requests <= 1
          /\ requests > 0 => initialized
          /\ (pc = "attempt" /\ opPc \in {"request", "done"}) => requests = 1
          /\ (pc = "attempt" /\ opPc \in {"except", "failed", "stuck"}
                /\ ~initialized) => requests = 0)
    /\ [][requests' > requests =>
            /\ opPc = "handshake" /\ session /\ ~initialized
            /\ initialized'
            /\ conns[Len(conns)].state = "open"
            /\ conns[Len(conns)].users = {<<calls, attempt>>}]_vars

\* A session whose handshake raised, after a session of the same call that
\* sent its request.
C11_Witness ==
    /\ pc = "attempt"
    /\ opPc = "failed"
    /\ attempt >= 1
    /\ session
    /\ ~initialized
    /\ requests = 0
    /\ outcome = "ConnectError"

\* The lines of a text: the parts between its line feeds.
RECURSIVE Lines(_)
Lines(text) ==
    IF \A i \in 1..Len(text) : text[i] # "\n"
    THEN <<text>>
    ELSE LET lf == CHOOSE i \in 1..Len(text) :
                       /\ text[i] = "\n"
                       /\ \A j \in 1..(i - 1) : text[j] # "\n"
         IN  <<SubSeq(text, 1, lf - 1)>> \o Lines(SubSeq(text, lf + 1, Len(text)))

\* C12: invoke_tool returns a ToolInvocationResult (also for an answer
\* flagged as an error) whose error_code is 1 exactly when the answer is
\* flagged as an error and else 0, and whose content has one line per
\* content fragment, in the order of the answer, each the serialization of
\* its fragment; with no fragment the content is empty.
C12_InvocationResult ==
    (fn = "invoke_tool" /\ fnPc = "returned") =>
        /\ invocation.error_code \in {0, 1}
        /\ invocation.error_code = 1 <=> call_result.isError
        /\ call_result.content = <<>> => invocation.content = <<>>
        /\ call_result.content # <<>> =>
                Lines(invocation.content) =
                    [i \in 1..Len(call_result.content) |->
                        model_dump_json(call_result.content[i])]

C12_Witness ==
    /\ fn = "invoke_tool"
    /\ fnPc = "returned"
    /\ call_result.isError
    /\ Len(call_result.content) = 2
    /\ call_result.content[1] # call_result.content[2]
    /\ invocation.error_code = 1
    /\ Len(Lines(invocation.content)) = 2

\* C13: list_tools returns one ToolDef per tool of the catalog, in catalog
\* order, with the tool's name as name and identifier and one ToolParameter
\* per property of the schema, in property order; a parameter is required
\* exactly when the schema's required list names it, its type is the
\* schema's type as it stands (known or not) or "string" without one, its
\* default the schema's default or None.
C13_ToolDefsFromCatalog ==
    (fn = "list_tools" /\ fnPc = "returned") =>
        /\ Len(toolDefs) = Len(tools_result)
        /\ \A i \in 1..Len(tools_result) :
            LET tool == tools_result[i]
                td == toolDefs[i]
                props == IF "properties" \in DOMAIN tool.inputSchema
                         THEN tool.inputSchema["properties"] ELSE <<>>
                req == IF "required" \in DOMAIN tool.inputSchema
                       THEN {tool.inputSchema["required"][k] :
                                k \in 1..Len(tool.inputSchema["required"])}
                       ELSE {}
            IN  /\ td.name = tool.name
                /\ td.identifier = tool.name
                /\ Len(td.parameters) = Len(props)
                /\ \A j \in 1..Len(props) :
                    LET p == td.parameters[j]
                        schema == props[j][2]
                    IN  /\ p.name = props[j][1]
                        /\ p.required <=> props[j][1] \in req
                        /\ "type" \in DOMAIN schema =>
                                p.parameter_type = schema["type"]
                        /\ "type" \notin DOMAIN schema =>
                                p.parameter_type = "string"
                        /\ "default" \in DOMAIN schema =>
                                p.default = schema["default"]
                        /\ "default" \notin DOMAIN schema =>
                                p.default = "None"

\* The second tool of a catalog of two has a required parameter of a type
\* that is no JSON type, then an optional one without a type.
C13_Witness ==
    /\ fn = "list_tools"
    /\ fnPc = "returned"
    /\ Len(toolDefs) = 2
    /\ toolDefs[1].name # toolDefs[2].name
    /\ Len(toolDefs[2].parameters) = 2
    /\ toolDefs[2].parameters[1].name = "website"
    /\ toolDefs[2].parameters[1].parameter_type = "frobnicate"
    /\ toolDefs[2].parameters[1].required
    /\ toolDefs[2].parameters[2].parameter_type = "string"
    /\ "type" \notin DOMAIN tools_result[2].inputSchema["properties"][2][2]
    /\ ~toolDefs[2].parameters[2].required
    /\ toolDefs[2].parameters[2].default = "d1"

\* C14: no operation on a constructed client changes the object: endpoint,
\* timeout and max_retries stay as constructed and no catalog or other
\* result is stored on it, whether the operation returns or raises.
C14_OperationsLeaveClientUnchanged ==
    [][objPc = "ready" => clients' = clients]_vars

\* C15: every client that exists has an endpoint of scheme http or https
\* and max_retries >= 1; a constructor call with another scheme or with
\* max_retries < 1 raises and leaves no client.
C15_ClientsSatisfyConfig ==
    /\ \A i \in 1..Len(clients) :
            /\ urlparse_scheme(clients[i].endpoint) \in {"http", "https"}
            /\ clients[i].max_retries >= 1
    /\ objPc \in {"ready", "rejected"} =>
            (objPc = "rejected" <=>
                \/ urlparse_scheme(ctorArgs.endpoint) \notin {"http", "https"}
                \/ ctorArgs.max_retries < 1)

\* C16: once a bridge has cached a catalog - an empty one too - no later
\* call of process_query on it calls list_tools or changes the cache, and
\* every later call formats that catalog for the model.
C16_CatalogFetchedOnce ==
    [][\A b \in Bridges :
        bridge[b].tools # None =>
            /\ bridge'[b].tools = bridge[b].tools
            /\ bridge'[b].pc # "fetching"
            /\ bridge'[b].fetches <= bridge[b].fetches
            /\ bridge'[b].rounds > bridge[b].rounds =>
                    /\ bridge'[b].pc = "model"
                    /\ bridge'[b].formatted = bridge[b].tools]_vars

\* The third call on a bridge formats the empty catalog it has cached.
C16_Witness ==
    /\ bridge["b1"].rounds = 3
    /\ bridge["b1"].pc = "model"
    /\ bridge["b1"].fetches = 0
    /\ bridge["b1"].tools = Some(<<>>)
    /\ bridge["b1"].formatted = Some(<<>>)

\* C17: with calls on two bridges interleaved, the catalog a bridge has
\* cached is at all times unset or the one its own client's list_tools
\* returned; it changes only when the bridge's own fetch returns, a step
\* that leaves the other bridge as it is, and a bridge formats its own
\* cache only.
C17_CatalogPerBridge ==
    /\ [](\A b \in Bridges :
            /\ bridge[b].tools = None \/ bridge[b].tools = mcp_client[b].tools
            /\ bridge[b].formatted = None \/ bridge[b].formatted = bridge[b].tools)
    /\ [][\A b \in Bridges :
            bridge'[b].tools # bridge[b].tools =>
                /\ bridge[b].pc = "fetching"
                /\ bridge'[b].tools = mcp_client'[b].tools
                /\ \A c \in Bridges \ {b} :
                        bridge'[c] = bridge[c] /\ mcp_client'[c] = mcp_client[c]]_vars

\* Both bridges are in a call, each with a catalog of its own cached.
C17_Witness ==
    /\ bridge["b1"].pc = "tool"
    /\ bridge["b2"].pc = "model"
    /\ bridge["b1"].tools = Some(<<"rss_mcp_server_get_feed">>)
    /\ bridge["b2"].tools = Some(<<>>)
    /\ mcp_client["b1"].tools # mcp_client["b2"].tools

\* C18: within one turn the orchestration is strictly sequential.  At most
\* one tool invocation is in flight at any time; an invocation is in flight
\* only while process_query waits for it, and it is the one the received
\* model response asked for; an invocation starts in the step that receives
\* that response; and a model request is submitted only with no invocation
\* in flight and, after the first round, with the tool result of every
\* earlier round that asked for a tool at hand.
C18_TurnIsSequential ==
    /\ [](/\ bridge[TurnBridge].inflight \in {0, 1}
          /\ bridge[TurnBridge].inflight = 1 =>
                /\ bridge[TurnBridge].pc = "tool"
                /\ bridge[TurnBridge].tool_call # None
                /\ bridge[TurnBridge].tool_call =
                        parse_tool_call(bridge[TurnBridge].llm_response))
    /\ [][/\ bridge'[TurnBridge].inflight > bridge[TurnBridge].inflight =>
                /\ bridge[TurnBridge].pc = "model"
                /\ bridge[TurnBridge].inflight = 0
                /\ parse_tool_call(bridge'[TurnBridge].llm_response) # None
          /\ (bridge'[TurnBridge].pc = "model" /\ bridge[TurnBridge].pc # "model") =>
                /\ bridge[TurnBridge].inflight = 0
                /\ bridge'[TurnBridge].inflight = 0
                /\ Len(results') = bridge'[TurnBridge].rounds - 1
                /\ \A i \in 1..Len(results') :
                        results'[i].tool_call # None =>
                            results'[i].tool_result # None]_vars

\* The tool invocation of the second round is in flight, the first round's
\* tool result is at hand.
C18_Witness ==
    /\ tpc \in {"get_feed_call", "other_call"}
    /\ bridge[TurnBridge].rounds = 2
    /\ bridge[TurnBridge].inflight = 1
    /\ Len(results) = 1
    /\ results[1].tool_result # None

\* The first call of process_query of the turn ended with a call of the
\* feed tool that has a website argument.
FeedRequested ==
    /\ Len(results) >= 1
    /\ results[1].tool_call # None
    /\ results[1].tool_call[1].name = "rss_mcp_server_get_feed"
    /\ "website" \in DOMAIN results[1].tool_call[1].parameters

\* The model calls and the tool invocations of the calls of process_query
\* that are over.
ModelRoundTrips == SumSeq([i \in 1..Len(results) |-> results[i].modelCalls])

ToolInvocations == SumSeq([i \in 1..Len(results) |-> results[i].toolCalls])

\* C19: a turn is over in which the model asked for the feed tool with a
\* website in round 1, the tool answered with the feed, and the model, as
\* far as it was asked a second time, answered in plain text without a tool
\* call.  Then the turn has finished, with two model round-trips, one tool
\* invocation, and round 2's text as the final reply, put on the queue.
C19_FeedThenTextTurn ==
    ( /\ tpc \in {"finished", "raised"}
      /\ FeedRequested
      /\ results[1].tool_result # None
      /\ json_loads_text(results[1].tool_result[1].content).ok
      /\ Len(results) >= 2 =>
            /\ results[2].error = "None"
            /\ results[2].tool_call = None
            /\ results[2].llm_response # <<>>
            /\ \A i \in 1..Len(results[2].llm_response) :
                    results[2].llm_response[i].type = "text" )
    => /\ tpc = "finished"
       /\ ModelRoundTrips = 2
       /\ ToolInvocations = 1
       /\ reply = results[2].llm_response[1].text
       /\ \E i \in 1..Len(output_queue) : output_queue[i] = reply

\* C20: on the feed path the turn has one re-prompt round, and in that
\* round no tool call is parsed from the response and no tool invocation is
\* dispatched, while the round runs and when it is over.
C20_FeedPathSingleInvocation ==
    FeedRequested =>
        /\ Len(results) <= 2
        /\ tpc \in Awaiting =>
                /\ bridge[TurnBridge].tool_call = None
                /\ bridge[TurnBridge].toolCalls = 0
        /\ Len(results) = 2 =>
                /\ results[2].tool_call = None
                /\ results[2].toolCalls = 0
        /\ ToolInvocations <= 1

\* C21: the re-prompt loop of tool_loop is bounded.  Whatever the model
\* answers, a turn whose steps are taken when they can be comes to its end:
\* it finishes or it raises.
C21_LoopTerminates == <>(tpc \in {"finished", "raised"})

\* A response without a text to take: no block, or a first block that is
\* not text.
NoParsableText(response) ==
    response = <<>> \/ response[1].type # "text"

\* The turn is over and its last call of process_query returned the
\* response the final answer is taken from: one without a tool result, or
\* the re-prompt of the feed path.
AnswerTaken ==
    /\ tpc \in {"finished", "raised"}
    /\ bridge[TurnBridge].pc = "returned"
    /\ bridge[TurnBridge].tool_result = None \/ tpc = "finished"

\* C22: when the response the final answer is taken from has no parsable
\* text, the turn does not raise and its reply is a fixed fallback string.
C22_FallbackOnUnparsableReply ==
    (AnswerTaken /\ NoParsableText(bridge[TurnBridge].llm_response))
    => /\ tpc = "finished"
       /\ reply \in {<<"Bad reply - could not parse", 0>>,
                     <<"No final reply from model", 0>>}

\* The last call of process_query returned with the result of a tool that
\* is not the feed tool and has no hint.
HintlessResult ==
    /\ bridge[TurnBridge].pc = "returned"
    /\ bridge[TurnBridge].tool_result # None
    /\ bridge[TurnBridge].tool_call[1].name # "rss_mcp_server_get_feed"
    /\ bridge[TurnBridge].tool_call[1].name \notin DOMAIN INTERMEDIATE_REPLY_HINTS

\* C23: in the loop, a call of a tool without hint (the feed tool apart)
\* stands in the prompt with the model's own remark, the text of the first
\* block of the response that asked for it; and when that first block is not
\* text the step of the loop that takes the result raises KeyError and
\* starts no further request.
C23_NoFabricatedRemark ==
    /\ [](\A k \in 2..Len(prompt) :
            (/\ prompt[k].tool_name # "rss_mcp_server_get_feed"
             /\ prompt[k].tool_name \notin DOMAIN INTERMEDIATE_REPLY_HINTS)
            => /\ results[k - 1].llm_response[1].type = "text"
               /\ prompt[k].intermediate_reply = results[k - 1].llm_response[1].text
               /\ prompt[k].intermediate_reply[2] > 0)
    /\ [][(/\ HintlessResult
           /\ tpc \in {"agent_input", "other_call"}
           /\ bridge[TurnBridge].llm_response[1].type # "text"
           /\ handler' = "tool_loop"
           /\ turnVars' # turnVars)
          => /\ tpc' = "raised"
             /\ turnError' = "KeyError"
             /\ bridge' = bridge
             /\ prompt' = prompt]_vars

\* The loop has raised KeyError on a request for the tool without hint that
\* came with no remark.
C23_Witness ==
    /\ handler = "tool_loop"
    /\ HintlessResult
    /\ bridge[TurnBridge].llm_response[1].type # "text"
    /\ tpc = "raised"
    /\ turnError = "KeyError"

\* C24: no turn ends with a protocol-layer error raised out of it: a
\* failure of list_tools or invoke_tool after its retries is turned into a
\* message for the user and the turn finishes.
C24_TransportErrorsConverted ==
    tpc = "raised" => turnError \notin {"MCPConnectionError", "MCPTimeoutError"}

\* The end-of-turn marker.
BotFinished == <<"bot-finished", 0>>

\* C25: a turn that agent_input handles itself and that is over, the model
\* having answered with some content and no call to the server having
\* failed, has put 'bot-finished' on the output queue, once, as the last
\* item.
C25_MarkerEndsEveryTurn ==
    (/\ tpc \in {"finished", "raised"}
     /\ handler # "tool_loop"
     /\ bridge[TurnBridge].pc = "returned"
     /\ bridge[TurnBridge].llm_response # <<>>)
    => /\ output_queue # <<>>
       /\ Last(output_queue) = BotFinished
       /\ Cardinality({i \in 1..Len(output_queue) : output_queue[i] = BotFinished}) = 1

\* C26: in a turn that has finished the final reply is on the output queue
\* once, it is the text of the last response of the model or a fallback
\* string, and nothing but the end-of-turn marker comes after it.
C26_AnswerEmittedOnce ==
    tpc = "finished"
    => /\ Cardinality({i \in 1..Len(output_queue) : output_queue[i] = reply}) = 1
       /\ \A i \in 1..Len(output_queue) :
            output_queue[i] = reply =>
                \A j \in (i + 1)..Len(output_queue) : output_queue[j] = BotFinished
       /\ \/ /\ ~NoParsableText(bridge[TurnBridge].llm_response)
             /\ reply = bridge[TurnBridge].llm_response[1].text
          \/ /\ NoParsableText(bridge[TurnBridge].llm_response)
             /\ reply \in {<<"Bad reply - could not parse", 0>>,
                           <<"No final reply from model", 0>>}

\* What the prompt has to say of a call of process_query that ended with a
\* tool result, r being what the turn kept of the call.
SegmentOf(r) ==
    [intermediate_reply |->
        IF r.llm_response[1].type = "text"
        THEN r.llm_response[1].text
        ELSE INTERMEDIATE_REPLY_HINTS[r.tool_call[1].name],
     tool_name |-> r.tool_call[1].name,
     tool_parameters |-> r.tool_call[1].parameters,
     tool_result |-> json_loads_text(r.tool_result[1].content).value]

\* C27: the prompt of every re-prompt round of the multi-tool loop starts
\* with the user's query and then has, for every tool call of the turn so
\* far and in the order of the calls, the remark, the call and its result;
\* and from one round to the next the prompt stays or grows at its end.
C27_PromptGrowsInOrder ==
    /\ [](tpc = "other_call" =>
            /\ prompt[1].template = "OTHER_TOOL_PROMPT"
            /\ prompt[1].user_query = UserQuery
            /\ Len(prompt) = Len(results) + 1
            /\ \A k \in 1..Len(results) : prompt[k + 1] = SegmentOf(results[k]))
    /\ [][(tpc = "other_call" /\ tpc' = "other_call") =>
            /\ Len(prompt') >= Len(prompt)
            /\ SubSeq(prompt', 1, Len(prompt)) = prompt]_vars

\* A re-prompt round whose prompt tells of two tool calls, a call of the
\* tool without hint after a call of the tool with one.
C27_Witness ==
    /\ tpc = "other_call"
    /\ bridge[TurnBridge].pc = "model"
    /\ Len(prompt) = 3
    /\ prompt[2].tool_name = "rss_mcp_server_get_link"
    /\ prompt[3].tool_name = HintlessTool

\* C28: parse_tool_call returns None exactly when the response has no
\* block of type tool_use, and otherwise the name and the input of the
\* first such block, whatever stands before or after it.
C28_FirstToolUseWins ==
    (callee = "parse_tool_call" /\ callPc = "returned")
    => LET uses == {i \in 1..Len(argument) : argument[i].type = "tool_use"}
       IN  /\ retval = None <=> uses = {}
           /\ uses # {} =>
                \E i \in uses :
                    /\ \A j \in 1..(i - 1) : argument[j].type # "tool_use"
                    /\ retval = Some([name |-> argument[i].name,
                                      parameters |-> argument[i].input])

\* A response with a text, a request for the feed tool and a request for
\* another tool was parsed to the request for the feed tool.
C28_Witness ==
    /\ callee = "parse_tool_call" /\ callPc = "returned"
    /\ Len(argument) = 3
    /\ argument[1].type = "text"
    /\ argument[2].type = "tool_use" /\ argument[2].name = "rss_mcp_server_get_feed"
    /\ argument[3].type = "tool_use" /\ argument[3].name = "rss_mcp_server_get_link"
    /\ retval # None
    /\ retval[1].name = "rss_mcp_server_get_feed"

\* C29: to_anthropic_format gives one schema per tool, in order, with the
\* tool's name and description and one property per parameter; required
\* holds the names of the parameters marked required and no other; a
\* property has a default exactly when the parameter's default is not None,
\* and then that default; it has items exactly when its type is array; its
\* type is the mapped type for a type of TYPE_MAPPING and the parameter's
\* own type otherwise.
C29_SchemaPerTool ==
    (callee = "to_anthropic_format" /\ callPc = "returned")
    => /\ Len(retval) = Len(argument)
       /\ \A i \in 1..Len(argument) :
            LET tool == argument[i]
                schema == retval[i].input_schema
            IN  /\ retval[i].name = tool.name
                /\ retval[i].description = tool.description
                /\ schema.type = "object"
                /\ DOMAIN schema.properties =
                        {tool.parameters[k].name : k \in 1..Len(tool.parameters)}
                /\ {schema.required[k] : k \in 1..Len(schema.required)} =
                        {tool.parameters[k].name :
                            k \in {m \in 1..Len(tool.parameters) : tool.parameters[m].required}}
                /\ \A k \in 1..Len(tool.parameters) :
                        LET param == tool.parameters[k]
                            property == schema.properties[param.name]
                        IN  /\ property.description = param.description
                            /\ property.type =
                                    IF param.parameter_type \in DOMAIN TYPE_MAPPING
                                    THEN TYPE_MAPPING[param.parameter_type]
                                    ELSE param.parameter_type
                            /\ "default" \in DOMAIN property <=> param.default # None
                            /\ param.default # None => property.default = param.default[1]
                            /\ "items" \in DOMAIN property <=> property.type = "array"

\* Two tools were formatted, the first with a required parameter of a type
\* outside TYPE_MAPPING that has the default 0 and a list parameter that is
\* not required and has no default.
C29_Witness ==
    /\ callee = "to_anthropic_format" /\ callPc = "returned"
    /\ Len(argument) = 2
    /\ Len(argument[1].parameters) = 2
    /\ argument[1].parameters[1].parameter_type = "frobnicate"
    /\ argument[1].parameters[1].required
    /\ argument[1].parameters[1].default = Some(0)
    /\ argument[1].parameters[2].parameter_type = "list"
    /\ ~argument[1].parameters[2].required
    /\ argument[1].parameters[2].default = None
    /\ Len(retval) = 2

\* The item type when the name decides once it gives a hint, and the
\* description only for a name without one.
NameFirstItemType(param) ==
    LET n == lower(param.name)
        d == lower(param.description)
    IN  IF AnyIn(NameStringHints, n) THEN "string"
        ELSE IF AnyIn(NameIntegerHints, n) THEN "integer"
        ELSE IF AnyIn(DescStringHints, d) THEN "string"
        ELSE IF AnyIn(DescIntegerHints, d) THEN "integer"
        ELSE "string"

\* C30: the item type of an array parameter is string if its name has a
\* hint for string, else integer if its name has a hint for integer; only a
\* name without hint leaves the choice to the description, and without any
\* hint the type is string.
C30_NameBeforeDescription ==
    (callee = "_infer_array_item_type" /\ callPc = "returned")
    => retval = NameFirstItemType(argument)

\* C31: check_connection returns True or False and raises nothing: what
\* list_tools fails with does not reach the caller of check_connection.
C31_CheckConnectionReturnsBool ==
    ret.op = "check_connection" =>
        /\ ~ret.raised
        /\ ret.value \in {"True", "False"}

\* C33: the cleanup of a failed session cancels no task of other work of
\* the event loop.
C33_OtherWorkNotCancelled ==
    \A i \in DOMAIN others : others[i] # "cancelled"

\* C34: a call of _execute_with_retry that is over has returned the value
\* of the operation or raised MCPTimeoutError or MCPConnectionError, and
\* leaves no cancellation behind for its caller.
C34_ThreeWaysOut ==
    pc \in Ended =>
        \/ pc = "returned" /\ result \in Values /\ ~cancelReq
        \/ pc = "raised" /\ surfaced \in {"MCPTimeoutError", "MCPConnectionError"}
                         /\ ~cancelReq


\* C35: a call of process_query invokes at most one tool, after the
\* response of the model was received and parsed and with the parsed name
\* and arguments; without a parsed tool call invoke_tool is not called; a
\* call that returned has a tool_result exactly when it parsed a tool call.
C35_OneDispatchPerCall ==
    \A b \in Bridges :
        /\ bridge[b].toolCalls <= 1
        /\ bridge[b].toolCalls = 1 =>
                /\ bridge[b].modelCalls = 1
                /\ bridge[b].tool_call # None
                /\ bridge[b].tool_call = parse_tool_call(bridge[b].llm_response)
                /\ bridge[b].invoked =
                        Some([tool_name |-> bridge[b].tool_call[1].name,
                              kwargs |-> bridge[b].tool_call[1].parameters])
        /\ bridge[b].tool_call = None =>
                bridge[b].toolCalls = 0 /\ bridge[b].invoked = None
        /\ bridge[b].pc = "returned" =>
                (bridge[b].tool_result # None <=> bridge[b].tool_call # None)

\* A call returned the result of the tool the model asked for, a tool other
\* than the feed tool.
C35_Witness ==
    \E b \in Bridges :
        /\ bridge[b].pc = "returned"
        /\ bridge[b].toolCalls = 1
        /\ bridge[b].tool_result # None
        /\ bridge[b].invoked # None
        /\ bridge[b].invoked[1].tool_name = "rss_mcp_server_get_link"

\* The call of process_query of bridge b in progress or last made ended
\* with the error of its catalog fetch.
FetchRaised(b) ==
    /\ bridge[b].pc = "raised"
    /\ bridge[b].fetches = 1
    /\ bridge[b].formatted = None

\* C36: a call of process_query whose catalog fetch fails raises the error
\* of the fetch without a request to the model and without a tool
\* invocation and leaves self.tools unset, and the next call on the bridge
\* fetches the catalog again.
C36_FailedFetchNotCached ==
    [][\A b \in Bridges :
          /\ FetchRaised(b)' =>
                /\ bridge'[b].error \in Raised
                /\ bridge'[b].tools = None
                /\ bridge'[b].modelCalls = 0
                /\ bridge'[b].toolCalls = 0
          /\ (FetchRaised(b) /\ bridge'[b].rounds = bridge[b].rounds + 1) =>
                /\ bridge'[b].pc = "fetching"
                /\ bridge'[b].fetches = 1]_vars

\* After a failed fetch the next call on the bridge is fetching the catalog.
C36_Witness ==
    \E b \in Bridges :
        /\ bridge[b].rounds = 2
        /\ bridge[b].pc = "fetching"
        /\ bridge[b].tools = None


\* The contents invoke_tool makes of k >= 1 text fragments.
TextContents ==
    {ToolInvocationResult(answer).content :
        answer \in {a \in ToolAnswers :
                        /\ Len(a.content) >= 1
                        /\ \A i \in 1..Len(a.content) : a.content[i].type = "text"}}

\* C38: the step of tool_loop that builds the re-prompt from a tool result
\* of k >= 1 text fragments decodes the content of the result for every k:
\* on the feed path and on the multi-tool path it does not end in
\* JSONDecodeError.
C38_EveryFragmentCountDecodes ==
    [][(/\ tpc \in {"agent_input", "other_call"}
        /\ handler' = "tool_loop"
        /\ results' # results
        /\ bridge[TurnBridge].pc = "returned"
        /\ bridge[TurnBridge].tool_result # None
        /\ bridge[TurnBridge].tool_result[1].content \in TextContents)
            => turnError' # "JSONDecodeError"]_vars


\* C32: for a tool that list_tools discovered and to_anthropic_format
\* formatted, parse_tool_call gives back, from a response with one
\* tool-call block for the tool, the name of the tool and the arguments put
\* into the block.
C32_RoundTrip ==
    (callee = "round_trip" /\ callPc = "returned") =>
        /\ retval.discovered[1].name = argument.tool.name
        /\ retval.formatted[1].name = argument.tool.name
        /\ retval.tool_call = Some([name |-> argument.tool.name,
                                    parameters |-> argument.input])

\* A round trip is over for a tool with two parameters, one of them with a
\* default, and a block with both arguments after a remark of the model.
C32_Witness ==
    /\ callee = "round_trip" /\ callPc = "returned"
    /\ argument.remark
    /\ DOMAIN argument.input = ParamNames
    /\ Len(retval.discovered[1].parameters) = 2
    /\ \E j \in 1..2 : retval.discovered[1].parameters[j].default # "None"
    /\ DOMAIN retval.formatted[1].input_schema.properties = ParamNames
    /\ retval.tool_call # None


\* The calls of list_tools() the two calls of process_query have made.
CatalogRequests == query["q1"].fetches + query["q2"].fetches

\* C37: two calls of process_query on a bridge whose catalog is not fetched
\* yet request the catalog from the client once between them, however they
\* interleave at their awaits, as long as no fetch fails.
C37_CatalogRequestedOnce ==
    (\A q \in Queries : ~(query[q].pc = "raised" /\ query[q].formatted = None))
        => CatalogRequests <= 1

====
